---- MODULE Spec2Model ----
(***************************************************************************)
(* State-machine model of the senteng-design-system client.                *)
(*                                                                         *)
(*  - SpecHandler : the token-exchange serverless function                 *)
(*                  (src/unnamed/part_002, `handler`).                     *)
(*  - SpecService : the GoogleService module (src/unnamed/part_000):       *)
(*                  API-client bootstrap, token client, initClient /       *)
(*                  login / logout, run by concurrently pending calls.     *)
(*                                                                         *)
(* JavaScript runs one task at a time: each action below is the code that  *)
(* runs between two suspension points (an `await`, a script load, an SDK   *)
(* callback), so interleavings happen only where the code can yield.       *)
(***************************************************************************)
EXTENDS Integers, Sequences, FiniteSets, TLC

\* A value that is not there: undefined / null / a header that was not sent.
Absent == "<absent>"

\* JavaScript truthiness of a string-or-undefined value: `!x` is true for
\* undefined, null and the empty string.
Truthy(v) == v \notin {Absent, ""}

(***************************************************************************)
(* Part 1.  Token-exchange handler (src/unnamed/part_002)                  *)
(***************************************************************************)

VARIABLES
    req,            \* the request being served (method, Origin header, body) and process.env
    hpc,            \* position of the handler: "start", "fetching", "parsing", "done", "off"
    res,            \* the response written so far: status, body, headers
    providerCalls,  \* number of requests sent to the provider's token endpoint
    reply           \* what the provider answered (status, body), once it has

hvars == <<req, hpc, res, providerCalls, reply>>

\* State of the GoogleService module (Part 2) and of the page it runs in.
VARIABLES
    cfg,                 \* CLIENT_ID / API_KEY as provided by the environment
    gapiInited,          \* part_000:37
    gisInited,           \* part_000:38
    tokenClient,         \* part_000:39  Null, or the id of the token client object
    accessToken,         \* part_000:40  Null or a token
    currentUserProfile,  \* part_000:41  "null", "empty" or "full"
    windowGapi,          \* window.gapi is defined (api.js has run)
    gapiClient,          \* window.gapi.client is defined (gapi.load("client") has finished)
    gapiToken,           \* the credential installed by gapi.client.setToken
    windowGis,           \* window.google.accounts.oauth2 is defined
    clientCb,            \* per token client: the login call whose closure is its callback (Null: the no-op)
    pendingReq,          \* per call: the token client on which its requestAccessToken is outstanding
    userinfo,            \* per token request: the login call whose callback awaits the user-info answer
    uiResult,            \* per token request: how the user-info request ended ("none", "ok", "failed")
    calls,               \* per call: operation, position, promise outcome, and what it did
    scriptLoads,         \* api.js script tags appended to the document
    gisScriptLoads,      \* gsi/client script tags appended to the document
    initCalls,           \* calls of gapi.client.init
    logouts              \* logout() calls that have returned

svars == <<cfg, gapiInited, gisInited, tokenClient, accessToken, currentUserProfile,
           windowGapi, gapiClient, gapiToken, windowGis, clientCb, pendingReq,
           userinfo, uiResult, calls, scriptLoads, gisScriptLoads, initCalls, logouts>>

\* The sheet mapper of the UI shell (Part 3): one read of one grid.
VARIABLES
    grid,       \* the `values` handed to sheetValuesToObjects
    mapped,     \* the collection it returned
    mpc         \* "start", "done", or "off"

mvars == <<grid, mapped, mpc>>

\* A write to the sheet and the read that follows it (Part 4).
VARIABLES
    syncArg,    \* the dataArray argument of syncToSheet
    sheet,      \* rows held by the range A:Z of the target sheet
    remoteLog,  \* the Sheets requests issued and answered so far, in order
    syncRows    \* the local `rows` of syncToSheet

yvars == <<syncArg, sheet, remoteLog, syncRows>>

\* One Calendar or Drive operation (Part 5).
VARIABLES
    dataArg,    \* the arguments of the operation (an event, or a file and a folder name)
    denv,       \* DRIVE_ROOT_FOLDER_ID is configured; the browser's zone offset
    drive,      \* the folders under the root
    dataLog,    \* the Calendar and Drive requests issued so far, in order
    folderId,   \* the local `folderId` of uploadToDrive
    dataResult  \* what the operation resolved to

dvars == <<dataArg, denv, drive, dataLog, folderId, dataResult>>

\* Concurrent syncToSheet calls on one sheet (Part 7).
VARIABLES
    writes      \* per call: its dataArray argument and its local `rows`

wvars == <<writes>>

\* The UI shell (Part 8): state of AppInner, Projects and Schedule.
VARIABLES
    data,          \* App.jsx:836  { projects, calendar }
    uiSignedIn,    \* App.jsx:838  signedIn
    loading,       \* App.jsx:839
    newProject,    \* App.jsx:191  the name typed into the project form
    projectModal,  \* App.jsx:190  isAddModalOpen of Projects
    newEvent,      \* App.jsx:540  title and date typed into the event form
    eventModal,    \* App.jsx:539  isAddModalOpen of Schedule
    clicks,        \* how many times the user has pressed a button that starts a handler
    schedulePage,  \* which Schedule component is mounted: App.jsx:536 or pages/Schedule.jsx:59
    run,           \* per handler: where its pending run stands, and what that run did
    cloud          \* what Google holds: the session token, the sheet, the calendar, the folders

uvars == <<data, uiSignedIn, loading, newProject, projectModal, newEvent, eventModal,
           clicks, schedulePage, run, cloud>>

vars == <<hvars, svars, mvars, yvars, dvars, wvars, uvars>>

\* What the handler, and what the service's session and bootstrap code, leave alone.
notHandler == <<svars, mvars, yvars, dvars, wvars, uvars>>
notService == <<hvars, mvars, yvars, dvars, wvars, uvars>>

\* part_002:3-7
allowlist ==
    { "http://localhost:5173",
      "http://localhost:5174",
      "https://senteng-design-system.vercel.app" }

\* Origins a request may carry: the allow-listed ones, a foreign one, a
\* look-alike of an allow-listed one, the empty string, or no header at all.
Origins ==
    allowlist \cup { "https://evil.example", "http://localhost:5175", "", Absent }

Methods == { "POST", "OPTIONS", "GET", "PUT" }

FieldValues == { Absent, "", "v" }

\* req.body: not there at all, or an object whose three fields may each be
\* missing, empty or set.
NoRequestBody ==
    [ present |-> FALSE, code |-> Absent, codeVerifier |-> Absent, redirectUri |-> Absent ]

Bodies ==
    { NoRequestBody } \cup
    [ present : { TRUE }, code : FieldValues, codeVerifier : FieldValues, redirectUri : FieldValues ]

\* process.env.GOOGLE_CLIENT_ID / GOOGLE_CLIENT_SECRET
Envs == [ clientId : { Absent, "id" }, clientSecret : { Absent, "secret" } ]

\* Provider answers: an HTTP status and a JSON body (opaque), or a body that
\* is not JSON (r.json() throws), or no answer at all (fetch throws).
ProviderStatuses == { 200, 201, 400, 401, 503 }
ProviderBodies == { "token_json", "error_json" }
NotJson == "<not json>"

NoReply == [ status |-> 0, body |-> Absent ]

\* part_002:2   const origin = req.headers.origin || "";
OriginOf(r) == IF Truthy(r.originHeader) THEN r.originHeader ELSE ""

\* Faulty variant: the request's Origin is reflected without the allow-list.
CorsHeaders_Reflect(origin) ==
    [ acao  |-> IF origin # "" THEN origin ELSE Absent,
      vary  |-> IF origin # "" THEN "Origin" ELSE Absent,
      acam  |-> "POST, OPTIONS",
      acah  |-> "Content-Type" ]

\* part_002:9-15  the headers set before the method is looked at
CorsHeaders(origin) ==
    [ acao  |-> IF origin \in allowlist THEN origin ELSE Absent,
      vary  |-> IF origin \in allowlist THEN "Origin" ELSE Absent,
      acam  |-> "POST, OPTIONS",
      acah  |-> "Content-Type" ]

\* part_002:26   const { code, codeVerifier, redirectUri } = req.body || {};
Field(body, f) == IF ~body.present THEN Absent ELSE body[f]

\* Faulty variant: only `code` is validated.
MissingInput_CodeOnly(body) == ~Truthy(Field(body, "code"))

\* part_002:28   !code || !codeVerifier || !redirectUri
MissingInput(body) ==
    \/ ~Truthy(Field(body, "code"))
    \/ ~Truthy(Field(body, "codeVerifier"))
    \/ ~Truthy(Field(body, "redirectUri"))

\* Faulty variant: only the client id is required.
Misconfigured_IdOnly(env) == ~Truthy(env.clientId)

\* part_002:35-38  !clientId || !clientSecret
Misconfigured(env) == ~Truthy(env.clientId) \/ ~Truthy(env.clientSecret)

\* Response.ok
Ok(status) == status >= 200 /\ status <= 299

\* Faulty variant: every provider answer is relayed as a success.
RelayStatus_Always200(status) == 200

\* part_002:63-67  status of the relayed answer
RelayStatus(status) == IF ~Ok(status) THEN status ELSE 200

OwnBody(err) == [ from |-> "handler", val |-> err ]
ProviderBody(b) == [ from |-> "provider", val |-> b ]
NoBody == [ from |-> "none", val |-> Absent ]

NoHeaders == [ acao |-> Absent, vary |-> Absent, acam |-> Absent, acah |-> Absent ]

\* Faulty variant: every method but OPTIONS is served like a POST.
MethodGate_NoRefusal(method) == IF method = "OPTIONS" THEN "preflight" ELSE "serve"

\* part_002:17-23  what the handler does with the request method
MethodGate(method) ==
    IF method = "OPTIONS" THEN "preflight"
    ELSE IF method # "POST" THEN "refuse"
    ELSE "serve"

InitHandler ==
    /\ req \in [ method : Methods, originHeader : Origins, body : Bodies, env : Envs ]
    /\ hpc = "start"
    /\ res = [ status |-> 0, body |-> NoBody, headers |-> NoHeaders, bodyRead |-> FALSE ]
    /\ providerCalls = 0
    /\ reply = NoReply

\* The handler is not running (used by the other specifications).
HandlerOff ==
    /\ req = [ method |-> "OPTIONS", originHeader |-> Absent, body |-> NoRequestBody,
               env |-> [ clientId |-> Absent, clientSecret |-> Absent ] ]
    /\ hpc = "off"
    /\ res = [ status |-> 0, body |-> NoBody, headers |-> NoHeaders, bodyRead |-> FALSE ]
    /\ providerCalls = 0
    /\ reply = NoReply

Respond(status, body, headers, bodyRead) ==
    /\ res' = [ status |-> status, body |-> body, headers |-> headers, bodyRead |-> bodyRead ]
    /\ hpc' = "done"

\* part_002:1-59  from entry to the first await: CORS headers, method check,
\* input validation, configuration check, and the provider request.
HandlerEntry ==
    /\ hpc = "start"
    /\ LET h == CorsHeaders(OriginOf(req)) IN
       IF MethodGate(req.method) = "preflight"
       THEN /\ Respond(204, NoBody, h, FALSE)
            /\ UNCHANGED <<providerCalls>>
       ELSE IF MethodGate(req.method) = "refuse"
       THEN /\ Respond(405, OwnBody("method_not_allowed"), h, FALSE)
            /\ UNCHANGED <<providerCalls>>
       ELSE IF MissingInput(req.body)
       THEN /\ Respond(400, OwnBody("invalid_request"), h, TRUE)
            /\ UNCHANGED <<providerCalls>>
       ELSE IF Misconfigured(req.env)
       THEN /\ Respond(500, OwnBody("server_misconfigured"), h, TRUE)
            /\ UNCHANGED <<providerCalls>>
       ELSE /\ providerCalls' = providerCalls + 1
            /\ hpc' = "fetching"
            /\ res' = [ res EXCEPT !.headers = h, !.bodyRead = TRUE ]
    /\ UNCHANGED <<req, reply>>
    /\ UNCHANGED notHandler

\* part_002:55-61  fetch settles: the provider answered (the handler goes on
\* to read the body), or the request failed and the catch of line 68 answers.
HandlerAfterFetch ==
    /\ hpc = "fetching"
    /\ \/ \E s \in ProviderStatuses, b \in ProviderBodies \cup { NotJson } :
            /\ reply' = [ status |-> s, body |-> b ]
            /\ hpc' = "parsing"
            /\ UNCHANGED res
       \/ /\ Respond(500, OwnBody("server_error"), res.headers, TRUE)
          /\ UNCHANGED reply
    /\ UNCHANGED <<req, providerCalls>>
    /\ UNCHANGED notHandler

\* part_002:61-72  r.json() settles: relay the provider's answer, or the
\* catch of line 68 answers when the body could not be parsed.
HandlerAfterJson ==
    /\ hpc = "parsing"
    /\ IF reply.body = NotJson
       THEN Respond(500, OwnBody("server_error"), res.headers, TRUE)
       ELSE Respond(RelayStatus(reply.status), ProviderBody(reply.body), res.headers, TRUE)
    /\ UNCHANGED <<req, providerCalls, reply>>
    /\ UNCHANGED notHandler

NextHandler ==
    \/ HandlerEntry
    \/ HandlerAfterFetch
    \/ HandlerAfterJson


(***************************************************************************)
(* Part 2.  GoogleService (src/unnamed/part_000): bootstrap and session    *)
(***************************************************************************)

\* Number of service calls a behaviour may start; they may overlap.
NCalls == 2
\* Number of distinct access tokens the provider may issue.
NTokens == 2

Calls == 1 .. NCalls
Tokens == 1 .. NTokens

\* null for identifiers (a token, a token client, a callback owner)
Null == 0


BootstrapReasons ==
    { "config", "gapi_script", "gapi_load", "gapi_init",
      "gis_script", "gis_client_id", "gis_init" }

NewCall ==
    [ op      |-> "none",     \* "initClient", "login", "logout"
      pc      |-> "idle",
      own     |-> FALSE,      \* the script this call waits for is one it appended itself
      outcome |-> "none",     \* of the returned promise: "pending", "resolved", "rejected"
      value   |-> "none",     \* what it resolved to
      via     |-> "none",     \* what settled it
      warm    |-> FALSE,      \* gapiInited when the call entered ensureGapiClient
      tried   |-> FALSE,      \* the call got as far as loadGapiScript (line 98)
      gapiOk  |-> FALSE,      \* its ensureGapiClient returned normally
      loads   |-> 0,          \* api.js script tags this call appended
      inits   |-> 0,          \* gapi.client.init calls this call made
      revoke  |-> "none" ]    \* logout: what the revocation did

InitService ==
    /\ cfg \in [ clientId : BOOLEAN, apiKey : BOOLEAN ]
    /\ gapiInited = FALSE
    /\ gisInited = FALSE
    /\ tokenClient = Null
    /\ accessToken = Null
    /\ currentUserProfile = "null"
    /\ windowGapi = FALSE
    /\ gapiClient = FALSE
    /\ gapiToken = Null
    /\ windowGis = FALSE
    /\ clientCb = [ c \in Calls |-> Null ]
    /\ pendingReq = [ p \in Calls |-> Null ]
    /\ userinfo = [ p \in Calls |-> Null ]
    /\ uiResult = [ p \in Calls |-> "none" ]
    /\ calls = [ p \in Calls |-> NewCall ]
    /\ scriptLoads = 0
    /\ gisScriptLoads = 0
    /\ initCalls = 0
    /\ logouts = 0

\* The service is not in use (used by the other specifications).
ServiceOff ==
    /\ cfg = [ clientId |-> FALSE, apiKey |-> FALSE ]
    /\ gapiInited = FALSE
    /\ gisInited = FALSE
    /\ tokenClient = Null
    /\ accessToken = Null
    /\ currentUserProfile = "null"
    /\ windowGapi = FALSE
    /\ gapiClient = FALSE
    /\ gapiToken = Null
    /\ windowGis = FALSE
    /\ clientCb = [ c \in Calls |-> Null ]
    /\ pendingReq = [ p \in Calls |-> Null ]
    /\ userinfo = [ p \in Calls |-> Null ]
    /\ uiResult = [ p \in Calls |-> "none" ]
    /\ calls = [ p \in Calls |-> NewCall ]
    /\ scriptLoads = 0
    /\ gisScriptLoads = 0
    /\ initCalls = 0
    /\ logouts = 0


Put(p, c) == calls' = [ calls EXCEPT ![p] = c ]

\* Calls are numbered in the order in which they are made.
NextToStart(p) ==
    /\ calls[p].pc = "idle"
    /\ \A q \in Calls : q < p => calls[q].pc # "idle"

\* Settling a promise: only the first resolve / reject of a promise counts.
SettleCall(c, o, v, how) ==
    IF c.outcome = "pending"
    THEN [ c EXCEPT !.outcome = o, !.value = v, !.via = how, !.pc = "done" ]
    ELSE c

\* Faulty variant: the catch rethrows.
initClientCatch_Rethrow(reason) == [ outcome |-> "rejected", value |-> reason ]

\* part_000:155-158  the catch of initClient
initClientCatch(reason) == [ outcome |-> "resolved", value |-> "false" ]

\* part_000:162-163  login awaits the bootstrap outside any try
loginBootstrapThrow(reason) == [ outcome |-> "rejected", value |-> reason ]

\* What an exception thrown by ensureGapiClient / ensureGisClient does to
\* the call that awaits it.
Thrown(c, reason) ==
    LET r == IF c.op = "initClient" THEN initClientCatch(reason)
                                    ELSE loginBootstrapThrow(reason)
    IN  SettleCall(c, r.outcome, r.value, reason)

\* Faulty variant: the memo flag is never honoured.
Memoized_Never(inited) == FALSE

\* part_000:84   if (gapiInited) return;
Memoized(inited) == inited

\* Faulty variant: only the client id is looked at.
MissingConfig_ClientIdOnly(c) == ~c.clientId

\* part_000:86   !CLIENT_ID || !API_KEY
MissingConfig(c) == ~c.clientId \/ ~c.apiKey

\* part_000:45-60  loadGapiScript appends a script tag unless window.gapi is there
loadGapiScript(present) == ~present

\* part_000:62-79  loadGisScript, likewise for window.google.accounts.oauth2
loadGisScript(present) == ~present

\* part_000:83-98  ensureGapiClient up to its first await, run by call p whose
\* record (as set up by the calling operation) is c.
ensureGapiClient(p, c) ==
    LET c0 == [ c EXCEPT !.warm = gapiInited ] IN
    IF Memoized(gapiInited)
    THEN /\ Put(p, [ c0 EXCEPT !.pc = "after_gapi", !.gapiOk = TRUE ])
         /\ UNCHANGED scriptLoads
    ELSE IF MissingConfig(cfg)
    THEN /\ Put(p, Thrown(c0, "config"))
         /\ UNCHANGED scriptLoads
    ELSE LET app == loadGapiScript(windowGapi)
             n == IF app THEN 1 ELSE 0
         IN  /\ Put(p, [ c0 EXCEPT !.pc = "gapi_script", !.own = app,
                                   !.tried = TRUE, !.loads = @ + n ])
             /\ scriptLoads' = scriptLoads + n

\* part_000:147-149  initClient() is called
initClient(p) ==
    /\ NextToStart(p)
    /\ ensureGapiClient(p, [ NewCall EXCEPT !.op = "initClient", !.outcome = "pending" ])
    /\ UNCHANGED notService
    /\ UNCHANGED <<cfg, gapiInited, gisInited, tokenClient, accessToken, currentUserProfile,
                   windowGapi, gapiClient, gapiToken, windowGis, clientCb, pendingReq,
                   userinfo, uiResult, gisScriptLoads, initCalls, logouts>>

\* part_000:161-162  login() is called
login(p) ==
    /\ NextToStart(p)
    /\ ensureGapiClient(p, [ NewCall EXCEPT !.op = "login", !.outcome = "pending" ])
    /\ UNCHANGED notService
    /\ UNCHANGED <<cfg, gapiInited, gisInited, tokenClient, accessToken, currentUserProfile,
                   windowGapi, gapiClient, gapiToken, windowGis, clientCb, pendingReq,
                   userinfo, uiResult, gisScriptLoads, initCalls, logouts>>

\* part_000:98-108  the api.js promise settles: the script ran (or window.gapi
\* was there already) and gapi.load("client") is called, or the script failed.
GapiScriptSettles(p) ==
    /\ calls[p].pc = "gapi_script"
    /\ \/ /\ windowGapi' = (windowGapi \/ calls[p].own)
          /\ Put(p, [ calls[p] EXCEPT !.pc = "gapi_load", !.own = FALSE ])
       \/ /\ calls[p].own
          /\ Put(p, Thrown(calls[p], "gapi_script"))
          /\ UNCHANGED windowGapi
    /\ UNCHANGED notService
    /\ UNCHANGED <<cfg, gapiInited, gisInited, tokenClient, accessToken, currentUserProfile,
                   gapiClient, gapiToken, windowGis, clientCb, pendingReq, userinfo,
                   uiResult, scriptLoads, gisScriptLoads, initCalls, logouts>>

\* part_000:100-114  gapi.load settles: gapi.client exists and
\* gapi.client.init is called, or onerror rejects.
GapiLoadSettles(p) ==
    /\ calls[p].pc = "gapi_load"
    /\ \/ /\ gapiClient' = TRUE
          /\ initCalls' = initCalls + 1
          /\ Put(p, [ calls[p] EXCEPT !.pc = "gapi_init", !.inits = @ + 1 ])
       \/ /\ Put(p, Thrown(calls[p], "gapi_load"))
          /\ UNCHANGED <<gapiClient, initCalls>>
    /\ UNCHANGED notService
    /\ UNCHANGED <<cfg, gapiInited, gisInited, tokenClient, accessToken, currentUserProfile,
                   windowGapi, gapiToken, windowGis, clientCb, pendingReq, userinfo,
                   uiResult, scriptLoads, gisScriptLoads, logouts>>

\* part_000:110-120  gapi.client.init settles
GapiInitSettles(p) ==
    /\ calls[p].pc = "gapi_init"
    /\ \/ /\ gapiInited' = TRUE
          /\ Put(p, [ calls[p] EXCEPT !.pc = "after_gapi", !.gapiOk = TRUE ])
       \/ /\ Put(p, Thrown(calls[p], "gapi_init"))
          /\ UNCHANGED gapiInited
    /\ UNCHANGED notService
    /\ UNCHANGED <<cfg, gisInited, tokenClient, accessToken, currentUserProfile,
                   windowGapi, gapiClient, gapiToken, windowGis, clientCb, pendingReq,
                   userinfo, uiResult, scriptLoads, gisScriptLoads, initCalls, logouts>>

\* part_000:125-128  ensureGisClient up to its await
ensureGisClient(p) ==
    /\ calls[p].pc = "after_gapi"
    /\ IF gisInited /\ tokenClient # Null
       THEN /\ Put(p, [ calls[p] EXCEPT !.pc = "after_gis" ])
            /\ UNCHANGED gisScriptLoads
       ELSE LET app == loadGisScript(windowGis) IN
            /\ Put(p, [ calls[p] EXCEPT !.pc = "gis_script", !.own = app ])
            /\ gisScriptLoads' = gisScriptLoads + (IF app THEN 1 ELSE 0)
    /\ UNCHANGED notService
    /\ UNCHANGED <<cfg, gapiInited, gisInited, tokenClient, accessToken, currentUserProfile,
                   windowGapi, gapiClient, gapiToken, windowGis, clientCb, pendingReq,
                   userinfo, uiResult, scriptLoads, initCalls, logouts>>

\* part_000:128-142  the gsi/client promise settles; then the CLIENT_ID check
\* and initTokenClient, which makes a new token client with a no-op callback.
GisScriptSettles(p) ==
    /\ calls[p].pc = "gis_script"
    /\ \/ /\ windowGis' = (windowGis \/ calls[p].own)
          /\ IF ~cfg.clientId
             THEN /\ Put(p, Thrown(calls[p], "gis_client_id"))
                  /\ UNCHANGED <<tokenClient, clientCb, gisInited>>
             ELSE \/ /\ tokenClient' = p
                     /\ clientCb' = [ clientCb EXCEPT ![p] = Null ]
                     /\ gisInited' = TRUE
                     /\ Put(p, [ calls[p] EXCEPT !.pc = "after_gis", !.own = FALSE ])
                  \/ /\ Put(p, Thrown(calls[p], "gis_init"))
                     /\ UNCHANGED <<tokenClient, clientCb, gisInited>>
       \/ /\ calls[p].own
          /\ Put(p, Thrown(calls[p], "gis_script"))
          /\ UNCHANGED <<windowGis, tokenClient, clientCb, gisInited>>
    /\ UNCHANGED notService
    /\ UNCHANGED <<cfg, gapiInited, accessToken, currentUserProfile, windowGapi,
                   gapiClient, gapiToken, pendingReq, userinfo, uiResult,
                   scriptLoads, gisScriptLoads, initCalls, logouts>>

\* part_000:152  const signedIn = !!accessToken;
signedIn(token) == IF token # Null THEN "true" ELSE "false"

\* part_000:150-154  initClient returns after both ensure-calls
initClientReturn(p) ==
    /\ calls[p].pc = "after_gis"
    /\ calls[p].op = "initClient"
    /\ Put(p, SettleCall(calls[p], "resolved", signedIn(accessToken), "return"))
    /\ UNCHANGED notService
    /\ UNCHANGED <<cfg, gapiInited, gisInited, tokenClient, accessToken, currentUserProfile,
                   windowGapi, gapiClient, gapiToken, windowGis, clientCb, pendingReq,
                   userinfo, uiResult, scriptLoads, gisScriptLoads, initCalls, logouts>>

\* part_000:165-204  login installs its callback on the token client and
\* requests a token; a throw of the request rejects the promise.
loginRequest(p) ==
    /\ calls[p].pc = "after_gis"
    /\ calls[p].op = "login"
    /\ clientCb' = [ clientCb EXCEPT ![tokenClient] = p ]
    /\ \/ /\ pendingReq' = [ pendingReq EXCEPT ![p] = tokenClient ]
          /\ Put(p, [ calls[p] EXCEPT !.pc = "token" ])
       \/ /\ Put(p, SettleCall(calls[p], "rejected", "request_threw", "request_threw"))
          /\ UNCHANGED pendingReq
    /\ UNCHANGED notService
    /\ UNCHANGED <<cfg, gapiInited, gisInited, tokenClient, accessToken, currentUserProfile,
                   windowGapi, gapiClient, gapiToken, windowGis, userinfo, uiResult,
                   scriptLoads, gisScriptLoads, initCalls, logouts>>


\* Faulty variant: the new token is not installed on the API client.
setToken_Dropped(token, installed) == installed

\* part_000:175  window.gapi.client.setToken({ access_token: accessToken })
setToken(token, installed) == token

\* part_000:184-191  the profile built from a user-info answer, and what the
\* login promise is resolved with
userinfoThen == [ profile |-> "full", outcome |-> "resolved", value |-> "full" ]

\* Faulty variant: a failing user-info request fails the sign-in.
userinfoCatch_Rejects == [ profile |-> "null", outcome |-> "rejected", value |-> "userinfo" ]

\* part_000:192-197  the catch around the user-info request
userinfoCatch == [ profile |-> "empty", outcome |-> "resolved", value |-> "empty" ]

\* part_000:167-181  the token client calls back with the answer to the
\* request of call p.  The callback that runs is the one installed on that
\* token client now, i.e. the closure of the login call q that set it last.
TokenResponse(p) ==
    /\ pendingReq[p] # Null
    /\ LET q == clientCb[pendingReq[p]] IN
       /\ pendingReq' = [ pendingReq EXCEPT ![p] = Null ]
       /\ IF q = Null
          THEN UNCHANGED <<calls, accessToken, gapiToken, userinfo>>
          ELSE \/ /\ Put(q, SettleCall(calls[q], "rejected", "token_error", "token_error"))
                  /\ UNCHANGED <<accessToken, gapiToken, userinfo>>
               \/ \E t \in Tokens :
                     /\ accessToken' = t
                     /\ gapiToken' = setToken(t, gapiToken)
                     /\ userinfo' = [ userinfo EXCEPT ![p] = q ]
                     /\ UNCHANGED calls
    /\ UNCHANGED notService
    /\ UNCHANGED <<cfg, gapiInited, gisInited, tokenClient, currentUserProfile,
                   windowGapi, gapiClient, windowGis, clientCb, uiResult,
                   scriptLoads, gisScriptLoads, initCalls, logouts>>

\* part_000:179-197  the user-info request issued for the token of request p
\* settles: the profile is stored and the login promise resolved.
UserinfoSettles(p) ==
    /\ userinfo[p] # Null
    /\ LET q == userinfo[p] IN
       \/ /\ currentUserProfile' = userinfoThen.profile
          /\ Put(q, SettleCall(calls[q], userinfoThen.outcome, userinfoThen.value, "userinfo_ok"))
          /\ uiResult' = [ uiResult EXCEPT ![p] = "ok" ]
       \/ /\ currentUserProfile' = userinfoCatch.profile
          /\ Put(q, SettleCall(calls[q], userinfoCatch.outcome, userinfoCatch.value, "userinfo_failed"))
          /\ uiResult' = [ uiResult EXCEPT ![p] = "failed" ]
    /\ userinfo' = [ userinfo EXCEPT ![p] = Null ]
    /\ UNCHANGED notService
    /\ UNCHANGED <<cfg, gapiInited, gisInited, tokenClient, accessToken, windowGapi,
                   gapiClient, gapiToken, windowGis, clientCb, pendingReq,
                   scriptLoads, gisScriptLoads, initCalls, logouts>>

\* part_000:209-213  the revocation is attempted only with a token and the
\* GIS library present; the SDK call may throw.
revokeOutcomes(token, gis) ==
    IF token # Null /\ gis THEN { "ok", "threw" } ELSE { "skipped" }

\* Faulty variant: a throwing revoke escapes logout before the session is cleared.
logoutSession_RevokeEscapes(r) ==
    IF r = "threw"
    THEN [ accessToken |-> accessToken, profile |-> currentUserProfile, outcome |-> "rejected" ]
    ELSE [ accessToken |-> Null, profile |-> "null", outcome |-> "resolved" ]

\* part_000:208-219  the try/catch swallows a throwing revoke; the session
\* fields are then cleared whatever the revocation did.
logoutSession(r) ==
    [ accessToken |-> Null, profile |-> "null", outcome |-> "resolved" ]

\* part_000:220  window.gapi?.client?.setToken(null)
logoutCredential(installed) ==
    IF windowGapi /\ gapiClient THEN Null ELSE installed

\* part_000:207-221  logout() has no await: it runs to completion in one step.
logout(p) ==
    /\ NextToStart(p)
    /\ \E r \in revokeOutcomes(accessToken, windowGis) :
         LET s == logoutSession(r) IN
         /\ accessToken' = s.accessToken
         /\ currentUserProfile' = s.profile
         /\ gapiToken' = logoutCredential(gapiToken)
         /\ Put(p, [ NewCall EXCEPT !.op = "logout", !.pc = "done", !.outcome = s.outcome,
                                    !.value = "undefined", !.via = "return", !.revoke = r ])
    /\ logouts' = logouts + 1
    /\ UNCHANGED notService
    /\ UNCHANGED <<cfg, gapiInited, gisInited, tokenClient, windowGapi, gapiClient,
                   windowGis, clientCb, pendingReq, userinfo, uiResult,
                   scriptLoads, gisScriptLoads, initCalls>>

NextService ==
    \/ \E p \in Calls : initClient(p)
    \/ \E p \in Calls : login(p)
    \/ \E p \in Calls : logout(p)
    \/ \E p \in Calls : GapiScriptSettles(p)
    \/ \E p \in Calls : GapiLoadSettles(p)
    \/ \E p \in Calls : GapiInitSettles(p)
    \/ \E p \in Calls : ensureGisClient(p)
    \/ \E p \in Calls : GisScriptSettles(p)
    \/ \E p \in Calls : initClientReturn(p)
    \/ \E p \in Calls : loginRequest(p)
    \/ \E p \in Calls : TokenResponse(p)
    \/ \E p \in Calls : UserinfoSettles(p)

(***************************************************************************)
(* Part 3.  Sheet mapper of the UI shell (src/App.jsx:52-64)               *)
(***************************************************************************)

\* Largest number of columns and of data rows of a grid.
MaxCols == 2
MaxRows == 2

\* All sequences over S of length at most n.
SeqsUpTo(S, n) == UNION { [ 1 .. k -> S ] : k \in 0 .. n }

\* Header cells: an empty header cell, the identifier column, another column.
HeaderNames == { "", "id", "name" }

\* Data cells: empty, an ordinary value, and a value that looks like the
\* identifier the mapper makes up for the first data row.
CellValues == { "", "projects-1" }

\* App.jsx:848  the sheet the shell reads
SheetName == "projects"

\* `values`: undefined / null, or an array of rows (row 0 being the header);
\* rows may be shorter than the header.
NoGrid == [ present |-> FALSE, rows |-> <<>> ]

Grids ==
    { NoGrid } \cup
    { [ present |-> TRUE, rows |-> <<>> ] } \cup
    { [ present |-> TRUE, rows |-> <<h>> \o b ] :
          h \in SeqsUpTo(HeaderNames, MaxCols),
          b \in SeqsUpTo(SeqsUpTo(CellValues, MaxCols), MaxRows) }

\* Faulty variant: a missing cell is left undefined.
CellAt_NoDefault(row, i) == IF i <= Len(row) THEN row[i] ELSE Absent

\* App.jsx:59   row[i] ?? ""
CellAt(row, i) == IF i <= Len(row) THEN row[i] ELSE ""

\* App.jsx:61   `${sheetName}-${idx + 1}`, pos being idx + 1
SynthId(sheetName, pos) == sheetName \o "-" \o ToString(pos)

\* App.jsx:57-60  header.forEach: every non-empty header cell assigns its
\* key, a later column overwriting an earlier one of the same name.
HeaderKeys(header) == { header[i] : i \in 1 .. Len(header) } \ { "" }

LastColumn(header, key) ==
    CHOOSE i \in 1 .. Len(header) :
        /\ header[i] = key
        /\ \A j \in 1 .. Len(header) : header[j] = key => j <= i

\* App.jsx:55-63  the object built for one data row
RowToObject(header, row, sheetName, pos) ==
    LET keys == HeaderKeys(header)
        obj  == [ k \in keys |-> CellAt(row, LastColumn(header, k)) ]
    IN  IF "id" \in keys /\ obj["id"] # ""
        THEN obj
        ELSE [ k \in keys \cup { "id" } |->
                 IF k = "id" THEN SynthId(sheetName, pos) ELSE obj[k] ]

\* App.jsx:52-64
sheetValuesToObjects(values, sheetName) ==
    IF ~values.present \/ Len(values.rows) = 0
    THEN <<>>
    ELSE LET header == Head(values.rows)
             rows   == Tail(values.rows)
         IN  [ idx \in 1 .. Len(rows) |-> RowToObject(header, rows[idx], sheetName, idx) ]

InitMapper ==
    /\ grid \in Grids
    /\ mapped = <<>>
    /\ mpc = "start"

MapperOff ==
    /\ grid = NoGrid
    /\ mapped = <<>>
    /\ mpc = "off"

\* App.jsx:848  const projects = sheetValuesToObjects(projectsValues, "projects")
MapSheet ==
    /\ mpc = "start"
    /\ mapped' = sheetValuesToObjects(grid, SheetName)
    /\ mpc' = "done"
    /\ UNCHANGED grid
    /\ UNCHANGED <<wvars, uvars, hvars, svars, yvars, dvars>>

NextMapper == MapSheet

(***************************************************************************)
(* Part 4.  syncToSheet / fetchSheetData (src/unnamed/part_000:229-285)    *)
(***************************************************************************)

\* Largest number of records of a collection handed to syncToSheet.
MaxRecords == 2

\* Every component of the module state except `calls` and `scriptLoads`.
pageState ==
    <<cfg, gapiInited, gisInited, tokenClient, accessToken, currentUserProfile,
      windowGapi, gapiClient, gapiToken, windowGis, clientCb, pendingReq,
      userinfo, uiResult, gisScriptLoads, initCalls, logouts>>

\* A page on which an earlier operation has completed the bootstrap.
WarmPage ==
    /\ cfg = [ clientId |-> TRUE, apiKey |-> TRUE ]
    /\ gapiInited = TRUE
    /\ gisInited = FALSE
    /\ tokenClient = Null
    /\ accessToken = Null
    /\ currentUserProfile = "null"
    /\ windowGapi = TRUE
    /\ gapiClient = TRUE
    /\ gapiToken = Null
    /\ windowGis = FALSE
    /\ clientCb = [ c \in Calls |-> Null ]
    /\ pendingReq = [ p \in Calls |-> Null ]
    /\ userinfo = [ p \in Calls |-> Null ]
    /\ uiResult = [ p \in Calls |-> "none" ]
    /\ calls = [ p \in Calls |-> NewCall ]
    /\ scriptLoads = 1
    /\ gisScriptLoads = 0
    /\ initCalls = 1
    /\ logouts = 0

\* Field values of a record: t is the JavaScript type; s the text of a
\* string (or the key of a one-entry mapping); n a number (or the value of a
\* one-entry mapping); e the elements of a list of numbers.
JsNull      == [ t |-> "null",      s |-> "",  n |-> 0, e |-> <<>> ]
JsUndefined == [ t |-> "undefined", s |-> "",  n |-> 0, e |-> <<>> ]
JsString    == [ t |-> "string",    s |-> "a", n |-> 0, e |-> <<>> ]
JsNumber    == [ t |-> "number",    s |-> "",  n |-> 7, e |-> <<>> ]
JsList      == [ t |-> "list",      s |-> "",  n |-> 0, e |-> <<1, 2>> ]
JsMap       == [ t |-> "map",       s |-> "k", n |-> 1, e |-> <<>> ]

FieldData == { JsNull, JsString, JsNumber, JsList, JsMap }

RecordKeys == { "id", "name" }

\* A record: its own keys in insertion order, each with its value.
Records ==
    { r \in SeqsUpTo([ k : RecordKeys, v : FieldData ], Cardinality(RecordKeys)) :
          \A i, j \in 1 .. Len(r) : i # j => r[i].k # r[j].k }

\* dataArray: something that is not an array, or an array of records.
NotAnArray == [ isArray |-> FALSE, items |-> <<>> ]

SyncArgs ==
    { NotAnArray } \cup
    { [ isArray |-> TRUE, items |-> c ] : c \in SeqsUpTo(Records, MaxRecords) }

\* What the range holds before the write: a header and two rows of an
\* earlier write.
OldSheet == << <<"id", "old">>, <<"o1", "x">>, <<"o2", "y">> >>

\* Array.prototype.join(",") of a list of numbers
RECURSIVE JoinNumbers(_)
JoinNumbers(e) ==
    IF e = <<>> THEN ""
    ELSE IF Len(e) = 1 THEN ToString(e[1])
    ELSE ToString(e[1]) \o "," \o JoinNumbers(Tail(e))

\* part_000:251  JSON.stringify(v) of a list or a mapping
JsonStringify(v) ==
    IF v.t = "list"
    THEN "[" \o JoinNumbers(v.e) \o "]"
    ELSE "{\"" \o v.s \o "\":" \o ToString(v.n) \o "}"

\* part_000:256  String(v)
StringOf(v) ==
    CASE v.t = "string"    -> v.s
      [] v.t = "number"    -> ToString(v.n)
      [] v.t = "list"      -> JoinNumbers(v.e)
      [] v.t = "map"       -> "[object Object]"
      [] v.t = "null"      -> "null"
      [] v.t = "undefined" -> "undefined"

\* Faulty variant: every defined value goes through String().
CellText_StringOnly(v) ==
    IF v.t \in { "null", "undefined" } THEN "" ELSE StringOf(v)

\* part_000:247-256  the cell written for the value v
CellText(v) ==
    IF v.t \in { "null", "undefined" } THEN ""
    ELSE IF v.t \in { "list", "map" } THEN JsonStringify(v)
    ELSE StringOf(v)

\* part_000:246  item?.[key]
FieldOf(item, key) ==
    IF \E i \in 1 .. Len(item) : item[i].k = key
    THEN (item[CHOOSE i \in 1 .. Len(item) : item[i].k = key]).v
    ELSE JsUndefined

\* Object.keys(item || {})
KeysOf(item) == [ i \in 1 .. Len(item) |-> item[i].k ]

\* values.flatMap(...)
RECURSIVE FlatKeys(_)
FlatKeys(items) ==
    IF items = <<>> THEN <<>> ELSE KeysOf(Head(items)) \o FlatKeys(Tail(items))

\* Array.from(new Set(keys)): the first occurrence of each key, in order
RECURSIVE Distinct(_)
Distinct(keys) ==
    IF keys = <<>> THEN <<>>
    ELSE LET front == Distinct(SubSeq(keys, 1, Len(keys) - 1))
             last  == keys[Len(keys)]
         IN  IF \E i \in 1 .. Len(front) : front[i] = last
             THEN front
             ELSE Append(front, last)

\* part_000:240-242
AllKeys(items) == Distinct(FlatKeys(items))

\* part_000:244-259  the header row followed by one row per record
BuildRows(items) ==
    LET allKeys == AllKeys(items)
    IN  <<allKeys>> \o
        [ r \in 1 .. Len(items) |->
            [ c \in 1 .. Len(allKeys) |-> CellText(FieldOf(items[r], allKeys[c])) ] ]

\* Faulty variant: the clear leaves the range as it was.
ClearRange_Noop(cur) == cur

\* values.clear of A:Z: the range holds nothing afterwards
ClearRange(cur) == <<>>

Larger(a, b) == IF a >= b THEN a ELSE b

WidthAt(g, r) == IF r <= Len(g) THEN Len(g[r]) ELSE 0

\* values.update at A1 with RAW input: the cells given are stored as they
\* are, the other cells of the range keep what they held.
WriteAtA1(cur, rows) ==
    [ r \in 1 .. Larger(Len(cur), Len(rows)) |->
        [ c \in 1 .. Larger(WidthAt(cur, r), WidthAt(rows, r)) |->
            IF c <= WidthAt(rows, r) THEN rows[r][c] ELSE cur[r][c] ] ]

\* values.get leaves out trailing empty cells of a row and trailing empty rows.
RECURSIVE TrimRow(_)
TrimRow(row) ==
    IF row = <<>> THEN <<>>
    ELSE IF row[Len(row)] = "" THEN TrimRow(SubSeq(row, 1, Len(row) - 1))
    ELSE row

RECURSIVE TrimRows(_)
TrimRows(g) ==
    IF g = <<>> THEN <<>>
    ELSE IF TrimRow(g[Len(g)]) = <<>> THEN TrimRows(SubSeq(g, 1, Len(g) - 1))
    ELSE [ r \in 1 .. Len(g) |-> TrimRow(g[r]) ]

\* An entry of remoteLog.
Logged(ev, body) == [ ev |-> ev, body |-> body ]

InitSync ==
    /\ WarmPage
    /\ syncArg \in SyncArgs
    /\ sheet = OldSheet
    /\ remoteLog = <<>>
    /\ syncRows = <<>>
    /\ grid = NoGrid
    /\ mapped = <<>>
    /\ mpc = "off"

SyncOff ==
    /\ syncArg = NotAnArray
    /\ sheet = <<>>
    /\ remoteLog = <<>>
    /\ syncRows = <<>>

Started(op) == \E q \in Calls : calls[q].op = op

\* part_000:232  Array.isArray(dataArray) ? dataArray : []
ArrayOrEmpty(arg) == IF arg.isArray THEN arg.items ELSE <<>>

\* Faulty variant: the empty collection is written like any other.
NothingToWrite_Never(values) == FALSE

\* part_000:233  values.length === 0
NothingToWrite(values) == Len(values) = 0

\* part_000:229-230  syncToSheet(sheetName, dataArray) is called
syncToSheet(p) ==
    /\ NextToStart(p)
    /\ ~Started("syncToSheet")
    /\ ensureGapiClient(p, [ NewCall EXCEPT !.op = "syncToSheet", !.outcome = "pending" ])
    /\ UNCHANGED pageState
    /\ UNCHANGED <<wvars, uvars, hvars, mvars, yvars, dvars>>

\* part_000:232-261  from the return of ensureGapiClient to the clear request
SyncBuild(p) ==
    /\ calls[p].op = "syncToSheet"
    /\ calls[p].pc = "after_gapi"
    /\ LET values == ArrayOrEmpty(syncArg)
       IN  IF NothingToWrite(values)
           THEN /\ syncRows' = <<>>
                /\ Put(p, [ calls[p] EXCEPT !.pc = "clear_only" ])
           ELSE /\ syncRows' = BuildRows(values)
                /\ Put(p, [ calls[p] EXCEPT !.pc = "clear" ])
    /\ remoteLog' = Append(remoteLog, Logged("clear", <<>>))
    /\ UNCHANGED <<syncArg, sheet>>
    /\ UNCHANGED <<pageState, scriptLoads>>
    /\ UNCHANGED <<wvars, uvars, hvars, mvars, dvars>>

\* part_000:234-238, 261-271  the clear is answered: the empty-collection
\* branch returns { success: true }, the other branch sends the update; a
\* failed clear rejects.
ClearSettles(p) ==
    /\ calls[p].pc \in { "clear_only", "clear" }
    /\ \/ /\ sheet' = ClearRange(sheet)
          /\ IF calls[p].pc = "clear_only"
             THEN /\ Put(p, SettleCall(calls[p], "resolved", "success", "clear"))
                  /\ remoteLog' = Append(remoteLog, Logged("cleared", <<>>))
             ELSE /\ Put(p, [ calls[p] EXCEPT !.pc = "update" ])
                  /\ remoteLog' = remoteLog \o
                         << Logged("cleared", <<>>), Logged("update", syncRows) >>
       \/ /\ Put(p, SettleCall(calls[p], "rejected", "clear", "clear"))
          /\ UNCHANGED <<sheet, remoteLog>>
    /\ UNCHANGED <<syncArg, syncRows>>
    /\ UNCHANGED <<pageState, scriptLoads>>
    /\ UNCHANGED <<wvars, uvars, hvars, mvars, dvars>>

\* part_000:264-273  the update is answered
UpdateSettles(p) ==
    /\ calls[p].pc = "update"
    /\ \/ /\ sheet' = WriteAtA1(sheet, syncRows)
          /\ remoteLog' = Append(remoteLog, Logged("updated", <<>>))
          /\ Put(p, SettleCall(calls[p], "resolved", "result", "update"))
       \/ /\ Put(p, SettleCall(calls[p], "rejected", "update", "update"))
          /\ UNCHANGED <<sheet, remoteLog>>
    /\ UNCHANGED <<syncArg, syncRows>>
    /\ UNCHANGED <<pageState, scriptLoads>>
    /\ UNCHANGED <<wvars, uvars, hvars, mvars, dvars>>

\* part_000:278-279  fetchSheetData(sheetName) is called, once the write has
\* returned
fetchSheetData(p) ==
    /\ NextToStart(p)
    /\ ~Started("fetchSheetData")
    /\ \E q \in Calls : calls[q].op = "syncToSheet" /\ calls[q].outcome = "resolved"
    /\ ensureGapiClient(p, [ NewCall EXCEPT !.op = "fetchSheetData", !.outcome = "pending" ])
    /\ UNCHANGED pageState
    /\ UNCHANGED <<wvars, uvars, hvars, mvars, yvars, dvars>>

\* part_000:280-283  the get request is sent
SheetGet(p) ==
    /\ calls[p].op = "fetchSheetData"
    /\ calls[p].pc = "after_gapi"
    /\ Put(p, [ calls[p] EXCEPT !.pc = "get" ])
    /\ remoteLog' = Append(remoteLog, Logged("get", <<>>))
    /\ UNCHANGED <<syncArg, sheet, syncRows>>
    /\ UNCHANGED <<pageState, scriptLoads>>
    /\ UNCHANGED <<wvars, uvars, hvars, mvars, dvars>>

\* part_000:284, App.jsx:847-848  the get is answered with what the range
\* holds (trailing empty cells possibly left out); `res.result.values || []`
\* is handed to the mapper.
GetSettles(p) ==
    /\ calls[p].pc = "get"
    /\ \/ /\ \E g \in { sheet, TrimRows(sheet) } :
                grid' = [ present |-> TRUE, rows |-> g ]
          /\ mpc' = "start"
          /\ Put(p, SettleCall(calls[p], "resolved", "values", "get"))
       \/ /\ Put(p, SettleCall(calls[p], "rejected", "get", "get"))
          /\ UNCHANGED <<grid, mpc>>
    /\ UNCHANGED mapped
    /\ UNCHANGED <<pageState, scriptLoads>>
    /\ UNCHANGED <<wvars, uvars, hvars, yvars, dvars>>

NextSync ==
    \/ \E p \in Calls : syncToSheet(p)
    \/ \E p \in Calls : SyncBuild(p)
    \/ \E p \in Calls : ClearSettles(p)
    \/ \E p \in Calls : UpdateSettles(p)
    \/ \E p \in Calls : fetchSheetData(p)
    \/ \E p \in Calls : SheetGet(p)
    \/ \E p \in Calls : GetSettles(p)
    \/ MapSheet

(***************************************************************************)
(* Part 5.  addToCalendar / uploadToDrive (src/unnamed/part_000:289-457)   *)
(***************************************************************************)

\* Event fields as the caller gives them.  Dates are calendar days, times
\* are wall-clock times of the browser's zone.
Titles == { Absent, "", "visit" }
Dates  == { Absent, "", "2025-06-01", "2025-06-02", "someday" }
Times  == { Absent, "", "09:30", "23:30" }

\* The browser's zone, in minutes east of UTC (480 is Asia/Taipei).
ZoneOffsets == { 0 - 300, 0, 480 }

\* The `file` argument: undefined, an object without arrayBuffer, a Blob.
Files == { "absent", "plain", "blob" }

FolderNames == { Absent, "proj" }

NoArg == [ op |-> "none", title |-> Absent, date |-> Absent, time |-> Absent,
           file |-> "absent", folder |-> Absent ]

EventArgs ==
    { [ NoArg EXCEPT !.op = "addToCalendar", !.title = t, !.date = d, !.time = h ] :
          t \in Titles, d \in Dates, h \in Times }

UploadArgs ==
    { [ NoArg EXCEPT !.op = "uploadToDrive", !.file = f, !.folder = n ] :
          f \in Files, n \in FolderNames }

\* The folders under the root before the call: none, the one asked for,
\* or another one.
Drives ==
    { {}, { [ name |-> "proj", id |-> 1, made |-> FALSE ] },
          { [ name |-> "other", id |-> 1, made |-> FALSE ] } }

\* The identifier DRIVE_ROOT_FOLDER_ID names.
RootId == 99

\* Values Date.now() may return.
Clock == { 1, 2 }

\* A page on which nothing has been bootstrapped yet.
FreshPage == InitService

InitData ==
    /\ FreshPage \/ WarmPage
    /\ \/ /\ dataArg \in EventArgs
          /\ denv \in [ root : { FALSE }, zone : ZoneOffsets ]
          /\ drive = {}
       \/ /\ dataArg \in UploadArgs
          /\ denv \in [ root : BOOLEAN, zone : { 0 } ]
          /\ drive \in Drives
    /\ dataLog = <<>>
    /\ folderId = Null
    /\ dataResult = [ kind |-> "none", url |-> "" ]

DataOff ==
    /\ dataArg = NoArg
    /\ denv = [ root |-> FALSE, zone |-> 0 ]
    /\ drive = {}
    /\ dataLog = <<>>
    /\ folderId = Null
    /\ dataResult = [ kind |-> "none", url |-> "" ]

\* An instant that is not a valid date (NaN)
InvalidDate == [ valid |-> FALSE, ms |-> 0 ]

\* Days from 2025-06-01 to the day a date string names
DayOf(date) == IF date = "2025-06-02" THEN 1 ELSE 0

\* Minutes from midnight to a wall-clock time "HH:MM"
MinutesOf(time) ==
    CASE time = "00:00" -> 0
      [] time = "09:30" -> 9 * 60 + 30
      [] time = "10:00" -> 10 * 60
      [] time = "23:30" -> 23 * 60 + 30

\* Faulty variant: an omitted time means midnight.
TimeOrDefault_Midnight(time) == IF Truthy(time) THEN time ELSE "00:00"

\* part_000:297  time || "10:00"
TimeOrDefault(time) == IF Truthy(time) THEN time ELSE "10:00"

\* part_000:297  new Date(`${date} ${time}`): the instant, in milliseconds
\* since 2025-06-01T00:00Z, at which the browser's wall clock shows that date
\* and time; a string that is no date gives an invalid Date.
ParseLocal(date, time, zone) ==
    IF date \notin { "2025-06-01", "2025-06-02" }
    THEN InvalidDate
    ELSE [ valid |-> TRUE,
           ms    |-> (DayOf(date) * 24 * 60 + MinutesOf(time) - zone) * 60 * 1000 ]

\* part_000:298  new Date(startDate.getTime() + 60 * 60 * 1000)
OneHourAfter(start) ==
    IF start.valid
    THEN [ valid |-> TRUE, ms |-> start.ms + 60 * 60 * 1000 ]
    ELSE InvalidDate

\* part_000:305-312  { dateTime: d.toISOString(), timeZone: "Asia/Taipei" }:
\* the ISO text names the instant d in UTC.
Stamp(d) == [ dateTime |-> d.ms, timeZone |-> "Asia/Taipei" ]

NoStamp == [ dateTime |-> 0, timeZone |-> "" ]

\* An entry of dataLog: the request, and what it carries.
Request(ev) ==
    [ ev |-> ev, summary |-> "", start |-> NoStamp, end |-> NoStamp,
      name |-> "", parents |-> <<>> ]

\* part_000:293  !title || !date
MissingField(arg) == ~Truthy(arg.title) \/ ~Truthy(arg.date)

\* Faulty variant: the search result is ignored.
FolderFound_Never(files) == FALSE

\* part_000:403  searchRes.result.files && searchRes.result.files.length > 0
FolderFound(files) == files # {}

\* part_000:372  !file || typeof file.arrayBuffer !== "function"
BinaryCapable(file) == file = "blob"

\* part_000:391  name='${folderName}'
SearchName(folder) == IF folder = Absent THEN "undefined" ELSE folder

\* part_000:407  folderName || "未命名專案" (written "unnamed" here)
CreateName(folder) == IF Truthy(folder) THEN folder ELSE "unnamed"

\* part_000:420-427  metadata.parents
Parents(fid, root) ==
    IF fid # Null THEN <<fid>> ELSE IF root THEN <<RootId>> ELSE <<>>

MockPrefix == "https://drive.google.com/file/d/mock-"

\* part_000:289-290  addToCalendar(event) is called
addToCalendar(p) ==
    /\ NextToStart(p)
    /\ dataArg.op = "addToCalendar"
    /\ ~Started("addToCalendar")
    /\ ensureGapiClient(p, [ NewCall EXCEPT !.op = "addToCalendar", !.outcome = "pending" ])
    /\ UNCHANGED pageState
    /\ UNCHANGED <<wvars, uvars, hvars, mvars, yvars, dvars>>

\* part_000:292-318  from the return of ensureGapiClient to the insert
\* request: the validation, the two dates (toISOString throws on an invalid
\* Date), the resource.
CalendarBuild(p) ==
    /\ calls[p].op = "addToCalendar"
    /\ calls[p].pc = "after_gapi"
    /\ LET startDate == ParseLocal(dataArg.date, TimeOrDefault(dataArg.time), denv.zone)
           endDate   == OneHourAfter(startDate)
       IN  IF MissingField(dataArg)
           THEN /\ Put(p, SettleCall(calls[p], "rejected", "validation", "validation"))
                /\ UNCHANGED dataLog
           ELSE IF ~startDate.valid
           THEN /\ Put(p, SettleCall(calls[p], "rejected", "range", "toISOString"))
                /\ UNCHANGED dataLog
           ELSE /\ Put(p, [ calls[p] EXCEPT !.pc = "insert" ])
                /\ dataLog' = Append(dataLog,
                       [ Request("insert") EXCEPT !.summary = dataArg.title,
                                                  !.start = Stamp(startDate),
                                                  !.end = Stamp(endDate) ])
    /\ UNCHANGED <<dataArg, denv, drive, folderId, dataResult>>
    /\ UNCHANGED <<pageState, scriptLoads>>
    /\ UNCHANGED <<wvars, uvars, hvars, mvars, yvars>>

\* part_000:315-320  the insert is answered
InsertSettles(p) ==
    /\ calls[p].pc = "insert"
    /\ \/ /\ Put(p, SettleCall(calls[p], "resolved", "result", "insert"))
          /\ dataResult' = [ kind |-> "event", url |-> "" ]
       \/ /\ Put(p, SettleCall(calls[p], "rejected", "insert", "insert"))
          /\ UNCHANGED dataResult
    /\ UNCHANGED <<dataArg, denv, drive, dataLog, folderId>>
    /\ UNCHANGED <<pageState, scriptLoads>>
    /\ UNCHANGED <<wvars, uvars, hvars, mvars, yvars>>

\* part_000:370-371  uploadToDrive(file, folderName) is called
uploadToDrive(p) ==
    /\ NextToStart(p)
    /\ dataArg.op = "uploadToDrive"
    /\ ~Started("uploadToDrive")
    /\ ensureGapiClient(p, [ NewCall EXCEPT !.op = "uploadToDrive", !.outcome = "pending" ])
    /\ UNCHANGED pageState
    /\ UNCHANGED <<wvars, uvars, hvars, mvars, yvars, dvars>>

\* part_000:373-401, 420-434  from the return of ensureGapiClient to the
\* first await after it: the mock result, the folder search, or (without a
\* root) file.arrayBuffer().
DriveStart(p) ==
    /\ calls[p].op = "uploadToDrive"
    /\ calls[p].pc = "after_gapi"
    /\ IF ~BinaryCapable(dataArg.file)
       THEN /\ \E now \in Clock :
                  dataResult' = [ kind |-> "mock", url |-> MockPrefix \o ToString(now) ]
            /\ Put(p, SettleCall(calls[p], "resolved", "mock", "mock"))
            /\ UNCHANGED dataLog
       ELSE IF denv.root
       THEN /\ dataLog' = Append(dataLog,
                   [ Request("list") EXCEPT !.name = SearchName(dataArg.folder),
                                            !.parents = <<RootId>> ])
            /\ Put(p, [ calls[p] EXCEPT !.pc = "list" ])
            /\ UNCHANGED dataResult
       ELSE /\ Put(p, [ calls[p] EXCEPT !.pc = "read" ])
            /\ UNCHANGED <<dataLog, dataResult>>
    /\ UNCHANGED <<dataArg, denv, drive, folderId>>
    /\ UNCHANGED <<pageState, scriptLoads>>
    /\ UNCHANGED <<wvars, uvars, hvars, mvars, yvars>>

\* part_000:397-434  the search is answered: the first folder found is taken
\* and the file is read, or the folder is created.
ListSettles(p) ==
    /\ calls[p].pc = "list"
    /\ \/ LET files == { f \in drive : f.name = SearchName(dataArg.folder) }
          IN  IF FolderFound(files)
              THEN /\ \E f \in files : folderId' = f.id
                   /\ Put(p, [ calls[p] EXCEPT !.pc = "read" ])
                   /\ UNCHANGED dataLog
              ELSE /\ dataLog' = Append(dataLog,
                          [ Request("create") EXCEPT !.name = CreateName(dataArg.folder),
                                                     !.parents = <<RootId>> ])
                   /\ Put(p, [ calls[p] EXCEPT !.pc = "create" ])
                   /\ UNCHANGED folderId
       \/ /\ Put(p, SettleCall(calls[p], "rejected", "list", "list"))
          /\ UNCHANGED <<dataLog, folderId>>
    /\ UNCHANGED <<dataArg, denv, drive, dataResult>>
    /\ UNCHANGED <<pageState, scriptLoads>>
    /\ UNCHANGED <<wvars, uvars, hvars, mvars, yvars>>

\* part_000:411-434  the folder has been created: its id is taken and the
\* file is read.
CreateSettles(p) ==
    /\ calls[p].pc = "create"
    /\ \/ LET fid == 1 + Cardinality(drive)
          IN  /\ drive' = drive \cup
                     { [ name |-> CreateName(dataArg.folder), id |-> fid, made |-> TRUE ] }
              /\ folderId' = fid
              /\ Put(p, [ calls[p] EXCEPT !.pc = "read" ])
       \/ /\ Put(p, SettleCall(calls[p], "rejected", "create", "create"))
          /\ UNCHANGED <<drive, folderId>>
    /\ UNCHANGED <<dataArg, denv, dataLog, dataResult>>
    /\ UNCHANGED <<pageState, scriptLoads>>
    /\ UNCHANGED <<wvars, uvars, hvars, mvars, yvars>>

\* part_000:420-454  file.arrayBuffer() settles and the multipart upload,
\* whose metadata names the parents, is sent.
FileReadSettles(p) ==
    /\ calls[p].pc = "read"
    /\ \/ /\ dataLog' = Append(dataLog,
                 [ Request("upload") EXCEPT !.parents = Parents(folderId, denv.root) ])
          /\ Put(p, [ calls[p] EXCEPT !.pc = "upload" ])
       \/ /\ Put(p, SettleCall(calls[p], "rejected", "read", "arrayBuffer"))
          /\ UNCHANGED dataLog
    /\ UNCHANGED <<dataArg, denv, drive, folderId, dataResult>>
    /\ UNCHANGED <<pageState, scriptLoads>>
    /\ UNCHANGED <<wvars, uvars, hvars, mvars, yvars>>

\* part_000:446-456  the upload is answered
UploadSettles(p) ==
    /\ calls[p].pc = "upload"
    /\ \/ /\ Put(p, SettleCall(calls[p], "resolved", "result", "upload"))
          /\ dataResult' = [ kind |-> "file", url |-> "" ]
       \/ /\ Put(p, SettleCall(calls[p], "rejected", "upload", "upload"))
          /\ UNCHANGED dataResult
    /\ UNCHANGED <<dataArg, denv, drive, dataLog, folderId>>
    /\ UNCHANGED <<pageState, scriptLoads>>
    /\ UNCHANGED <<wvars, uvars, hvars, mvars, yvars>>

NextData ==
    \/ \E p \in Calls : addToCalendar(p)
    \/ \E p \in Calls : uploadToDrive(p)
    \/ \E p \in Calls : GapiScriptSettles(p)
    \/ \E p \in Calls : GapiLoadSettles(p)
    \/ \E p \in Calls : GapiInitSettles(p)
    \/ \E p \in Calls : CalendarBuild(p)
    \/ \E p \in Calls : InsertSettles(p)
    \/ \E p \in Calls : DriveStart(p)
    \/ \E p \in Calls : ListSettles(p)
    \/ \E p \in Calls : CreateSettles(p)
    \/ \E p \in Calls : FileReadSettles(p)
    \/ \E p \in Calls : UploadSettles(p)

(***************************************************************************)
(* Part 6.  The bootstrap as every public operation begins with it         *)
(*          (src/unnamed/part_000:83-121, 147-148, 161-162, 229-230,       *)
(*          289-290, 370-371)                                              *)
(***************************************************************************)

\* The arguments the data operations are called with here.
BootstrapArgs ==
    { [ NoArg EXCEPT !.op = "addToCalendar", !.title = "visit", !.date = "2025-06-01" ],
      [ NoArg EXCEPT !.op = "uploadToDrive", !.file = "blob", !.folder = "proj" ] }

\* A freshly loaded page, with or without its configuration.
InitBootstrap ==
    /\ FreshPage
    /\ dataArg \in BootstrapArgs
    /\ denv = [ root |-> TRUE, zone |-> 480 ]
    /\ drive = {}
    /\ dataLog = <<>>
    /\ folderId = Null
    /\ dataResult = [ kind |-> "none", url |-> "" ]

\* The operations are followed from their call to the return of their
\* `await ensureGapiClient()`.
NextBootstrap ==
    \/ \E p \in Calls : initClient(p)
    \/ \E p \in Calls : login(p)
    \/ \E p \in Calls : syncToSheet(p)
    \/ \E p \in Calls : addToCalendar(p)
    \/ \E p \in Calls : uploadToDrive(p)
    \/ \E p \in Calls : GapiScriptSettles(p)
    \/ \E p \in Calls : GapiLoadSettles(p)
    \/ \E p \in Calls : GapiInitSettles(p)

(***************************************************************************)
(* Part 7.  Concurrent syncToSheet calls (src/unnamed/part_000:229-276)    *)
(***************************************************************************)

\* The records the concurrent callers write.
WriterRecords ==
    { << [ k |-> "id", v |-> JsString ] >>,
      << [ k |-> "id", v |-> JsNumber ], [ k |-> "name", v |-> JsString ] >> }

WriterArgs ==
    { [ isArray |-> TRUE, items |-> c ] : c \in SeqsUpTo(WriterRecords, MaxRecords) }

NoWrite == [ arg |-> NotAnArray, rows |-> <<>> ]

\* Every call has its own argument; the page is bootstrapped and the sheet
\* holds an earlier write.
InitWriters ==
    /\ WarmPage
    /\ writes \in [ Calls -> { [ arg |-> a, rows |-> <<>> ] : a \in WriterArgs } ]
    /\ syncArg = NotAnArray
    /\ sheet = OldSheet
    /\ remoteLog = <<>>
    /\ syncRows = <<>>

WritersOff == writes = [ p \in Calls |-> NoWrite ]

\* part_000:229-230  syncToSheet(sheetName, dataArray) is called
WriterCall(p) ==
    /\ NextToStart(p)
    /\ ensureGapiClient(p, [ NewCall EXCEPT !.op = "syncToSheet", !.outcome = "pending" ])
    /\ UNCHANGED pageState
    /\ UNCHANGED <<hvars, mvars, yvars, dvars, wvars, uvars>>

\* part_000:232-264  from the return of ensureGapiClient to the clear request
WriterBuild(p) ==
    /\ calls[p].op = "syncToSheet"
    /\ calls[p].pc = "after_gapi"
    /\ LET values == ArrayOrEmpty(writes[p].arg)
       IN  IF NothingToWrite(values)
           THEN /\ Put(p, [ calls[p] EXCEPT !.pc = "clear_only" ])
                /\ UNCHANGED writes
           ELSE /\ writes' = [ writes EXCEPT ![p].rows = BuildRows(values) ]
                /\ Put(p, [ calls[p] EXCEPT !.pc = "clear" ])
    /\ remoteLog' = Append(remoteLog, Logged("clear", <<>>))
    /\ UNCHANGED <<syncArg, sheet, syncRows>>
    /\ UNCHANGED <<pageState, scriptLoads>>
    /\ UNCHANGED <<hvars, mvars, dvars, uvars>>

\* part_000:234-271  the clear of call p is answered
WriterClearSettles(p) ==
    /\ calls[p].pc \in { "clear_only", "clear" }
    /\ \/ /\ sheet' = ClearRange(sheet)
          /\ IF calls[p].pc = "clear_only"
             THEN /\ Put(p, SettleCall(calls[p], "resolved", "success", "clear"))
                  /\ remoteLog' = Append(remoteLog, Logged("cleared", <<>>))
             ELSE /\ Put(p, [ calls[p] EXCEPT !.pc = "update" ])
                  /\ remoteLog' = remoteLog \o
                         << Logged("cleared", <<>>), Logged("update", writes[p].rows) >>
       \/ /\ Put(p, SettleCall(calls[p], "rejected", "clear", "clear"))
          /\ UNCHANGED <<sheet, remoteLog>>
    /\ UNCHANGED <<syncArg, syncRows>>
    /\ UNCHANGED <<pageState, scriptLoads>>
    /\ UNCHANGED <<hvars, mvars, dvars, wvars, uvars>>

\* part_000:266-273  the update of call p is answered
WriterUpdateSettles(p) ==
    /\ calls[p].pc = "update"
    /\ \/ /\ sheet' = WriteAtA1(sheet, writes[p].rows)
          /\ remoteLog' = Append(remoteLog, Logged("updated", <<>>))
          /\ Put(p, SettleCall(calls[p], "resolved", "result", "update"))
       \/ /\ Put(p, SettleCall(calls[p], "rejected", "update", "update"))
          /\ UNCHANGED <<sheet, remoteLog>>
    /\ UNCHANGED <<syncArg, syncRows>>
    /\ UNCHANGED <<pageState, scriptLoads>>
    /\ UNCHANGED <<hvars, mvars, dvars, wvars, uvars>>

NextWriters ==
    \/ \E p \in Calls : WriterCall(p)
    \/ \E p \in Calls : WriterBuild(p)
    \/ \E p \in Calls : WriterClearSettles(p)
    \/ \E p \in Calls : WriterUpdateSettles(p)

(***************************************************************************)
(* Part 8.  The UI shell (src/App.jsx)                                     *)
(***************************************************************************)

\* Largest number of projects in the sheet and of events in the calendar.
MaxItems == 2

\* Largest number of presses of the buttons that start a handler.
MaxClicks == 3

\* App.jsx:829-832
INITIAL_DATA == [ projects |-> <<>>, calendar |-> <<>> ]

\* App.jsx:191-197, 248-254  the empty project form (its name field)
EmptyProject == <<>>

\* App.jsx:540-546, 577-583  the empty event form (its title and date fields)
EmptyEvent == [ title |-> <<>>, date |-> "" ]

\* Texts the user may type: sequences of characters, blank or not.
Typed == { <<>>, <<" ">>, <<"k", " ">> }

TypedDates == { "", "2025-06-01" }

\* The handlers of the shell.
Handlers ==
    { "login", "logout", "load", "reload", "addProject", "change", "addEvent",
      "pageAddEvent" }

\* A handler that is not running, and has not run.
NoRun ==
    [ pc      |-> "idle",
      toast   |-> "none",     \* the last notification its run raised
      failed  |-> FALSE,      \* a remote call of its run was rejected
      wrote   |-> FALSE,      \* its run replaced `data` by something else
      auth    |-> FALSE,      \* its pending request was sent with a token
      base    |-> <<>>,       \* the `projects` its closure holds
      updated |-> <<>>,       \* the collection it built or fetched
      sent    |-> <<>> ]      \* the remote calls its run made, in order

NoCloud == [ token |-> FALSE, sheet |-> <<>>, events |-> 0, folders |-> 0 ]

\* An earlier session may have left a project and an event.
Clouds == { NoCloud, [ NoCloud EXCEPT !.sheet = <<1>>, !.events = 1 ] }

\* The shell after its mount effect (App.jsx:882-906) found no session.
\* The Projects and the Schedule sections are kept side by side: the shell
\* shows one at a time, and a handler started in one goes on after the user
\* has moved to the other.  Each handler has at most one run in flight.
InitShell ==
    /\ data = INITIAL_DATA
    /\ uiSignedIn = FALSE
    /\ loading = FALSE
    /\ newProject = EmptyProject
    /\ projectModal = FALSE
    /\ newEvent = EmptyEvent
    /\ eventModal = FALSE
    /\ clicks = 0
    /\ schedulePage \in { "App.jsx", "pages/Schedule.jsx" }
    /\ run = [ h \in Handlers |-> NoRun ]
    /\ cloud \in Clouds

ShellOff ==
    /\ data = INITIAL_DATA
    /\ uiSignedIn = FALSE
    /\ loading = FALSE
    /\ newProject = EmptyProject
    /\ projectModal = FALSE
    /\ newEvent = EmptyEvent
    /\ eventModal = FALSE
    /\ clicks = 0
    /\ schedulePage = "App.jsx"
    /\ run = [ h \in Handlers |-> NoRun ]
    /\ cloud = NoCloud

notShell == <<hvars, svars, mvars, yvars, dvars, wvars>>

\* String.prototype.trim
RECURSIVE TrimStart(_)
TrimStart(t) == IF t # <<>> /\ Head(t) = " " THEN TrimStart(Tail(t)) ELSE t

RECURSIVE TrimEnd(_)
TrimEnd(t) ==
    IF t # <<>> /\ t[Len(t)] = " " THEN TrimEnd(SubSeq(t, 1, Len(t) - 1)) ELSE t

\* Faulty variant: the text is taken as typed.
Trim_AsTyped(t) == t

Trim(t) == TrimEnd(TrimStart(t))

\* How a request may be answered: Google rejects a request sent without a
\* token; any request may fail.
Answers(auth) == IF auth THEN { "ok", "rejected" } ELSE { "rejected" }

\* App.jsx:843-847  loadAllData up to its first await
LoadStart(token) ==
    [ NoRun EXCEPT !.pc = "sheet", !.auth = token, !.sent = <<"fetchSheetData">> ]

\* A project's id (`p-${Date.now()}`): one that no project of the closure has.
RECURSIVE Largest(_)
Largest(q) == IF q = <<>> THEN 0 ELSE Larger(Head(q), Largest(Tail(q)))

NewProjectId(base) == 1 + Largest(base)

\* Faulty variant: the new project is put first.
AppendProject_First(projects, project) == <<project>> \o projects

\* App.jsx:239  [...(projects || []), project]
AppendProject(projects, project) == Append(projects, project)

\* What a rejected syncToSheet may leave in the sheet (its clear may have
\* been applied).
AfterFailedSync(sh) == { sh, <<>> }

\* App.jsx:908-911  handleLogin: the button of the login screen is pressed
handleLogin ==
    /\ clicks < MaxClicks
    /\ clicks' = clicks + 1
    /\ ~uiSignedIn /\ ~loading
    /\ run["login"].pc = "idle" /\ run["load"].pc = "idle"
    /\ loading' = TRUE
    /\ run' = [ run EXCEPT !["login"] = [ NoRun EXCEPT !.pc = "login", !.sent = <<"login">> ] ]
    /\ UNCHANGED <<data, uiSignedIn, newProject, projectModal, newEvent, eventModal,
                   schedulePage, cloud>>
    /\ UNCHANGED notShell

\* App.jsx:911-922  GoogleService.login() settles: signed in and loadAllData
\* called, or the catch and the finally.
LoginSettles ==
    /\ run["login"].pc = "login"
    /\ \/ /\ cloud' = [ cloud EXCEPT !.token = TRUE ]
          /\ uiSignedIn' = TRUE
          /\ loading' = TRUE
          /\ run' = [ run EXCEPT !["login"] = [ @ EXCEPT !.pc = "loading", !.toast = "success" ],
                                 !["load"] = LoadStart(TRUE) ]
       \/ /\ loading' = FALSE
          /\ run' = [ run EXCEPT !["login"] = [ @ EXCEPT !.pc = "idle", !.toast = "error",
                                                         !.failed = TRUE ] ]
          /\ UNCHANGED <<cloud, uiSignedIn>>
    /\ UNCHANGED <<data, newProject, projectModal, newEvent, eventModal, schedulePage>>
    /\ UNCHANGED clicks
    /\ UNCHANGED notShell

\* The run of handleLogin that awaits loadAllData ends with it (App.jsx:915-922).
Awaiter(L, r) == IF L = "load" THEN [ r EXCEPT !.pc = "idle" ] ELSE r

\* App.jsx:847-851, 873-878  fetchSheetData settles: the projects are mapped
\* and fetchCalendarEvents is called, or the catch and the finally.
LoadSheetSettles(L) ==
    /\ L \in { "load", "reload" }
    /\ run[L].pc = "sheet"
    /\ \E a \in Answers(run[L].auth) :
         IF a = "ok"
         THEN /\ run' = [ run EXCEPT ![L] = [ @ EXCEPT !.pc = "calendar",
                                                       !.auth = cloud.token,
                                                       !.updated = cloud.sheet,
                                                       !.sent = Append(@, "fetchCalendarEvents") ] ]
              /\ UNCHANGED loading
         ELSE /\ run' = [ run EXCEPT ![L] = [ @ EXCEPT !.pc = "idle", !.toast = "error",
                                                       !.failed = TRUE ],
                                     !["login"] = Awaiter(L, @) ]
              /\ loading' = FALSE
    /\ UNCHANGED <<data, uiSignedIn, newProject, projectModal, newEvent, eventModal,
                   schedulePage, cloud>>
    /\ UNCHANGED clicks
    /\ UNCHANGED notShell

\* App.jsx:851-878  fetchCalendarEvents settles: setData, or the catch; then
\* the finally.
LoadCalendarSettles(L) ==
    /\ L \in { "load", "reload" }
    /\ run[L].pc = "calendar"
    /\ \E a \in Answers(run[L].auth) :
         IF a = "ok"
         THEN LET loaded == [ projects |-> run[L].updated,
                              calendar |-> [ i \in 1 .. cloud.events |-> i ] ]
              IN  /\ data' = loaded
                  /\ run' = [ run EXCEPT ![L] = [ @ EXCEPT !.pc = "idle",
                                                           !.wrote = (loaded # data) ],
                                         !["login"] = Awaiter(L, @) ]
         ELSE /\ run' = [ run EXCEPT ![L] = [ @ EXCEPT !.pc = "idle", !.toast = "error",
                                                       !.failed = TRUE ],
                                     !["login"] = Awaiter(L, @) ]
              /\ UNCHANGED data
    /\ loading' = FALSE
    /\ UNCHANGED <<uiSignedIn, newProject, projectModal, newEvent, eventModal,
                   schedulePage, cloud>>
    /\ UNCHANGED clicks
    /\ UNCHANGED notShell

\* App.jsx:925-931  handleLogout: GoogleService.logout() has no await and
\* cannot reject, so the handler's continuation follows at once.  Projects
\* and Schedule unmount with the login screen and lose their state.
handleLogout ==
    /\ clicks < MaxClicks
    /\ clicks' = clicks + 1
    /\ uiSignedIn
    /\ cloud' = [ cloud EXCEPT !.token = FALSE ]
    /\ uiSignedIn' = FALSE
    /\ data' = INITIAL_DATA
    /\ run' = [ run EXCEPT !["logout"] = [ NoRun EXCEPT !.toast = "info",
                                                        !.wrote = (data # INITIAL_DATA),
                                                        !.sent = <<"logout">> ] ]
    /\ newProject' = EmptyProject /\ projectModal' = FALSE
    /\ newEvent' = EmptyEvent /\ eventModal' = FALSE
    /\ UNCHANGED <<loading, schedulePage>>
    /\ UNCHANGED notShell

\* App.jsx:296  the project form is opened
OpenProjectModal ==
    /\ uiSignedIn /\ ~projectModal
    /\ projectModal' = TRUE
    /\ UNCHANGED <<data, uiSignedIn, loading, newProject, newEvent, eventModal,
                   schedulePage, run, cloud>>
    /\ UNCHANGED clicks
    /\ UNCHANGED notShell

\* App.jsx:446  the user types a project name
TypeProject(n) ==
    /\ uiSignedIn /\ projectModal
    /\ newProject # n
    /\ newProject' = n
    /\ UNCHANGED <<data, uiSignedIn, loading, projectModal, newEvent, eventModal,
                   schedulePage, run, cloud>>
    /\ UNCHANGED clicks
    /\ UNCHANGED notShell

\* App.jsx:206-216  handleAddProject up to its first await: the validation,
\* then createDriveFolder is called.
handleAddProject ==
    /\ clicks < MaxClicks
    /\ clicks' = clicks + 1
    /\ uiSignedIn /\ projectModal
    /\ run["addProject"].pc = "idle" /\ run["change"].pc = "idle"
    /\ Len(data.projects) < MaxItems
    /\ IF Trim(newProject) = <<>>
       THEN run' = [ run EXCEPT !["addProject"] = [ NoRun EXCEPT !.toast = "error" ] ]
       ELSE run' = [ run EXCEPT !["addProject"] =
                        [ NoRun EXCEPT !.pc = "folder", !.auth = cloud.token,
                                       !.base = data.projects,
                                       !.sent = <<"createDriveFolder">> ] ]
    /\ UNCHANGED <<data, uiSignedIn, loading, newProject, projectModal, newEvent,
                   eventModal, schedulePage, cloud>>
    /\ UNCHANGED notShell

\* App.jsx:214-241, 258-261  createDriveFolder settles: the project is built,
\* appended to the closure's projects and syncToSheet is called, or the catch.
AddProjectFolderSettles ==
    /\ run["addProject"].pc = "folder"
    /\ \E a \in Answers(run["addProject"].auth) :
         IF a = "ok"
         THEN /\ cloud' = [ cloud EXCEPT !.folders = Larger(@, 1) ]
              /\ run' = [ run EXCEPT !["addProject"] =
                            [ @ EXCEPT !.pc = "sync", !.auth = cloud.token,
                                       !.updated = AppendProject(run["addProject"].base,
                                                 NewProjectId(run["addProject"].base)),
                                       !.sent = Append(@, "syncToSheet") ] ]
         ELSE /\ run' = [ run EXCEPT !["addProject"] =
                            [ @ EXCEPT !.pc = "idle", !.toast = "error", !.failed = TRUE ] ]
              /\ UNCHANGED cloud
    /\ UNCHANGED <<data, uiSignedIn, loading, newProject, projectModal, newEvent,
                   eventModal, schedulePage>>
    /\ UNCHANGED clicks
    /\ UNCHANGED notShell

\* App.jsx:938-941  handleProjectsChange up to its await: setData, then
\* syncToSheet is called
ProjectsChangeStart(projects, token) ==
    [ NoRun EXCEPT !.pc = "sync", !.auth = token, !.updated = projects,
                   !.wrote = (projects # data.projects),
                   !.sent = <<"syncToSheet">> ]

\* App.jsx:241-261  the syncToSheet of handleAddProject settles:
\* onProjectsChange (handleProjectsChange, App.jsx:938-941) is called, the
\* success is notified and the form closed and reset (if Projects is still
\* mounted), or the catch.
AddProjectSyncSettles ==
    /\ run["addProject"].pc = "sync"
    /\ \E a \in Answers(run["addProject"].auth) :
         IF a = "ok"
         THEN /\ cloud' = [ cloud EXCEPT !.sheet = run["addProject"].updated ]
              /\ data' = [ data EXCEPT !.projects = run["addProject"].updated ]
              /\ run' = [ run EXCEPT
                            !["addProject"] = [ @ EXCEPT !.pc = "idle", !.toast = "success" ],
                            !["change"] =
                                ProjectsChangeStart(run["addProject"].updated, cloud.token) ]
              /\ projectModal' = FALSE
              /\ newProject' = EmptyProject
         ELSE /\ \E sh \in AfterFailedSync(cloud.sheet) :
                    cloud' = [ cloud EXCEPT !.sheet = sh ]
              /\ run' = [ run EXCEPT !["addProject"] =
                            [ @ EXCEPT !.pc = "idle", !.toast = "error", !.failed = TRUE ] ]
              /\ UNCHANGED <<data, projectModal, newProject>>
    /\ UNCHANGED <<uiSignedIn, loading, newEvent, eventModal, schedulePage>>
    /\ UNCHANGED clicks
    /\ UNCHANGED notShell

\* App.jsx:941-945  the syncToSheet of handleProjectsChange settles
ProjectsChangeSyncSettles ==
    /\ run["change"].pc = "sync"
    /\ \E a \in Answers(run["change"].auth) :
         IF a = "ok"
         THEN /\ cloud' = [ cloud EXCEPT !.sheet = run["change"].updated ]
              /\ run' = [ run EXCEPT !["change"] = [ @ EXCEPT !.pc = "idle" ] ]
         ELSE /\ \E sh \in AfterFailedSync(cloud.sheet) :
                    cloud' = [ cloud EXCEPT !.sheet = sh ]
              /\ run' = [ run EXCEPT !["change"] =
                            [ @ EXCEPT !.pc = "idle", !.toast = "error", !.failed = TRUE ] ]
    /\ UNCHANGED <<data, uiSignedIn, loading, newProject, projectModal, newEvent,
                   eventModal, schedulePage>>
    /\ UNCHANGED clicks
    /\ UNCHANGED notShell

\* App.jsx:613, pages/Schedule.jsx:158  the event form is opened
OpenEventModal ==
    /\ uiSignedIn /\ ~eventModal
    /\ eventModal' = TRUE
    /\ UNCHANGED <<data, uiSignedIn, loading, newProject, projectModal, newEvent,
                   schedulePage, run, cloud>>
    /\ UNCHANGED clicks
    /\ UNCHANGED notShell

\* App.jsx:743-757, pages/Schedule.jsx:248-256  the user types a title and
\* picks a date
TypeEvent(t, d) ==
    /\ uiSignedIn /\ eventModal
    /\ newEvent # [ title |-> t, date |-> d ]
    /\ newEvent' = [ title |-> t, date |-> d ]
    /\ UNCHANGED <<data, uiSignedIn, loading, newProject, projectModal, eventModal,
                   schedulePage, run, cloud>>
    /\ UNCHANGED clicks
    /\ UNCHANGED notShell

\* App.jsx:566-573  Schedule.handleAddEvent up to its await: the validation,
\* then addToCalendar is called.
handleAddEvent ==
    /\ clicks < MaxClicks
    /\ clicks' = clicks + 1
    /\ schedulePage = "App.jsx"
    /\ uiSignedIn /\ eventModal
    /\ run["addEvent"].pc = "idle" /\ run["reload"].pc = "idle"
    /\ cloud.events < MaxItems
    /\ IF Trim(newEvent.title) = <<>> \/ newEvent.date = ""
       THEN run' = [ run EXCEPT !["addEvent"] = [ NoRun EXCEPT !.toast = "error" ] ]
       ELSE run' = [ run EXCEPT !["addEvent"] =
                        [ NoRun EXCEPT !.pc = "insert", !.auth = cloud.token,
                                       !.sent = <<"addToCalendar">> ] ]
    /\ UNCHANGED <<data, uiSignedIn, loading, newProject, projectModal, newEvent,
                   eventModal, schedulePage, cloud>>
    /\ UNCHANGED notShell

\* App.jsx:573-589  addToCalendar settles: onEventCreated (handleEventCreated,
\* App.jsx:949-952, which calls loadAllData), the success is notified and the
\* form closed and reset (if Schedule is still mounted), or the catch.
AddEventSettles ==
    /\ run["addEvent"].pc = "insert"
    /\ \E a \in Answers(run["addEvent"].auth) :
         IF a = "ok"
         THEN /\ cloud' = [ cloud EXCEPT !.events = @ + 1 ]
              /\ run' = [ run EXCEPT
                            !["addEvent"] = [ @ EXCEPT !.pc = "idle", !.toast = "success" ],
                            !["reload"] = LoadStart(cloud.token) ]
              /\ loading' = TRUE
              /\ eventModal' = FALSE
              /\ newEvent' = EmptyEvent
         ELSE /\ run' = [ run EXCEPT !["addEvent"] =
                            [ @ EXCEPT !.pc = "idle", !.toast = "error", !.failed = TRUE ] ]
              /\ UNCHANGED <<cloud, loading, eventModal, newEvent>>
    /\ UNCHANGED <<data, uiSignedIn, newProject, projectModal, schedulePage>>
    /\ UNCHANGED clicks
    /\ UNCHANGED notShell

\* pages/Schedule.jsx:84-90  handleAddEvent up to its await: the validation,
\* then addToCalendar is called.
pageHandleAddEvent ==
    /\ clicks < MaxClicks
    /\ clicks' = clicks + 1
    /\ schedulePage = "pages/Schedule.jsx"
    /\ uiSignedIn /\ eventModal
    /\ run["pageAddEvent"].pc = "idle"
    /\ cloud.events < MaxItems
    /\ IF newEvent.title = <<>> \/ newEvent.date = ""
       THEN run' = [ run EXCEPT !["pageAddEvent"] = [ NoRun EXCEPT !.toast = "error" ] ]
       ELSE run' = [ run EXCEPT !["pageAddEvent"] =
                        [ NoRun EXCEPT !.pc = "insert", !.auth = cloud.token,
                                       !.sent = <<"addToCalendar">> ] ]
    /\ UNCHANGED <<data, uiSignedIn, loading, newProject, projectModal, newEvent,
                   eventModal, schedulePage, cloud>>
    /\ UNCHANGED notShell

\* pages/Schedule.jsx:90-100  addToCalendar resolves, with success or with an
\* error in its result, and the form is closed; or it rejects, which nothing
\* catches.
PageAddEventSettles ==
    /\ run["pageAddEvent"].pc = "insert"
    /\ \/ /\ run["pageAddEvent"].auth
          /\ cloud' = [ cloud EXCEPT !.events = @ + 1 ]
          /\ run' = [ run EXCEPT !["pageAddEvent"] =
                        [ @ EXCEPT !.pc = "idle", !.toast = "success" ] ]
          /\ newEvent' = EmptyEvent
          /\ eventModal' = FALSE
       \/ /\ run' = [ run EXCEPT !["pageAddEvent"] =
                        [ @ EXCEPT !.pc = "idle", !.toast = "error" ] ]
          /\ eventModal' = FALSE
          /\ UNCHANGED <<cloud, newEvent>>
       \/ /\ run' = [ run EXCEPT !["pageAddEvent"] =
                        [ @ EXCEPT !.pc = "idle", !.failed = TRUE ] ]
          /\ UNCHANGED <<cloud, newEvent, eventModal>>
    /\ UNCHANGED <<data, uiSignedIn, loading, newProject, projectModal, schedulePage>>
    /\ UNCHANGED clicks
    /\ UNCHANGED notShell

NextShell ==
    \/ handleLogin
    \/ LoginSettles
    \/ \E L \in { "load", "reload" } : LoadSheetSettles(L)
    \/ \E L \in { "load", "reload" } : LoadCalendarSettles(L)
    \/ handleLogout
    \/ OpenProjectModal
    \/ \E n \in Typed : TypeProject(n)
    \/ handleAddProject
    \/ AddProjectFolderSettles
    \/ AddProjectSyncSettles
    \/ ProjectsChangeSyncSettles
    \/ OpenEventModal
    \/ \E t \in Typed, d \in TypedDates : TypeEvent(t, d)
    \/ handleAddEvent
    \/ AddEventSettles
    \/ pageHandleAddEvent
    \/ PageAddEventSettles

(***************************************************************************)
(* Specifications                                                          *)
(***************************************************************************)

\* A request arrives at the serverless function; the client is not involved.
InitHandlerOnly ==
    InitHandler /\ ServiceOff /\ MapperOff /\ SyncOff /\ DataOff /\ WritersOff /\ ShellOff

\* The client module is loaded in a page; the serverless function is idle.
InitServiceOnly ==
    InitService /\ HandlerOff /\ MapperOff /\ SyncOff /\ DataOff /\ WritersOff /\ ShellOff

SpecHandler == InitHandlerOnly /\ [][NextHandler]_vars

SpecService == InitServiceOnly /\ [][NextService]_vars

\* The same, where every script load, SDK callback and request that is
\* outstanding is eventually answered and every continuation that can run
\* eventually runs (calls themselves need not be made).
FairService ==
    /\ SpecService
    /\ \A p \in Calls :
          /\ WF_vars(GapiScriptSettles(p))
          /\ WF_vars(GapiLoadSettles(p))
          /\ WF_vars(GapiInitSettles(p))
          /\ WF_vars(ensureGisClient(p))
          /\ WF_vars(GisScriptSettles(p))
          /\ WF_vars(initClientReturn(p))
          /\ WF_vars(loginRequest(p))
          /\ WF_vars(TokenResponse(p))
          /\ WF_vars(UserinfoSettles(p))

\* The shell maps one grid it was handed.
InitMapperOnly ==
    InitMapper /\ HandlerOff /\ ServiceOff /\ SyncOff /\ DataOff /\ WritersOff /\ ShellOff

SpecMapper == InitMapperOnly /\ [][NextMapper]_vars

\* A collection is written to the sheet and read back.
InitSyncOnly ==
    InitSync /\ HandlerOff /\ DataOff /\ WritersOff /\ ShellOff

SpecSync == InitSyncOnly /\ [][NextSync]_vars

\* One Calendar or Drive operation is made on a fresh or a bootstrapped page.
InitDataOnly ==
    InitData /\ HandlerOff /\ MapperOff /\ SyncOff /\ WritersOff /\ ShellOff

SpecData == InitDataOnly /\ [][NextData]_vars

\* Operations of every kind are called on a freshly loaded page.
InitBootstrapOnly ==
    InitBootstrap /\ HandlerOff /\ MapperOff /\ SyncOff /\ WritersOff /\ ShellOff

SpecBootstrap == InitBootstrapOnly /\ [][NextBootstrap]_vars

\* Several syncToSheet calls are made on one sheet.
InitWritersOnly == InitWriters /\ HandlerOff /\ MapperOff /\ DataOff /\ ShellOff

SpecWriters == InitWritersOnly /\ [][NextWriters]_vars

\* The user works with the shell.
InitShellOnly ==
    InitShell /\ HandlerOff /\ ServiceOff /\ MapperOff /\ SyncOff /\ DataOff /\ WritersOff

SpecShell == InitShellOnly /\ [][NextShell]_vars


(***************************************************************************)
(* Properties                                                              *)
(***************************************************************************)

BootstrapCalls == { p \in Calls : calls[p].op \in { "initClient", "login" } }

\* The call is inside ensureGapiClient, between its entry and its return.
InGapiBootstrap(p) == calls[p].pc \in { "gapi_script", "gapi_load", "gapi_init" }

\* C1: when two bootstraps overlap (the second enters ensureGapiClient
\* before the first has left it), at most one api.js script load and at most
\* one gapi.client.init call are ever made.
C1_OneBootstrapUnderConcurrency ==
    (\E p, q \in Calls : p # q /\ InGapiBootstrap(p) /\ InGapiBootstrap(q))
        => (scriptLoads <= 1 /\ initCalls <= 1)

\* C2: the bootstrap is memoized for later callers and not poisoned by a
\* failure: a call that enters ensureGapiClient after gapiInited was set
\* returns normally having appended no script and called gapi.client.init
\* not at all; gapiInited is set exactly when some call's init succeeded, so
\* failed calls leave it unset; and every call that finds it unset (with the
\* configuration present) attempts the initialization again.
C2_BootstrapMemoized ==
    /\ \A p \in BootstrapCalls :
          calls[p].warm =>
              /\ calls[p].loads = 0
              /\ calls[p].inits = 0
              /\ ~calls[p].tried
              /\ calls[p].gapiOk
    /\ gapiInited <=> (\E p \in BootstrapCalls : calls[p].inits > 0 /\ calls[p].gapiOk)
    /\ \A p \in BootstrapCalls :
          (~calls[p].warm /\ cfg.clientId /\ cfg.apiKey) => calls[p].tried

C2_Witness ==
    \E p, q \in Calls :
        /\ p # q
        /\ calls[p].inits = 1 /\ calls[p].gapiOk
        /\ calls[q].warm /\ calls[q].pc = "done" /\ calls[q].outcome = "resolved"
        /\ initCalls = 1 /\ scriptLoads = 1

C3_NoReject ==
    \A p \in Calls :
        calls[p].op = "initClient" =>
            /\ calls[p].outcome \in { "pending", "resolved" }
            /\ calls[p].outcome = "resolved" => calls[p].value \in { "true", "false" }
            /\ calls[p].via \in BootstrapReasons =>
                   calls[p].outcome = "resolved" /\ calls[p].value = "false"

C3_ReturnStep ==
    \A p \in Calls :
        (calls[p].op = "initClient" /\ calls[p].pc = "after_gis" /\ calls'[p].pc = "done")
            => /\ calls'[p].outcome = "resolved"
               /\ calls'[p].value = (IF accessToken # Null THEN "true" ELSE "false")

\* C3: initClient() never rejects; a failure of the script load, the
\* configuration check, the client init or the token-client init makes it
\* resolve to false; and when both bootstraps succeed it resolves to true
\* exactly when an access token is held at that moment.
C3_InitClientNeverThrows == [] C3_NoReject /\ [][C3_ReturnStep]_vars

C3_Witness ==
    \E p \in Calls :
        /\ calls[p].op = "initClient"
        /\ calls[p].via = "gis_init"
        /\ calls[p].outcome = "resolved" /\ calls[p].value = "false"

C4_LogoutStep ==
    logouts' # logouts =>
        /\ accessToken' = Null
        /\ currentUserProfile' = "null"
        /\ gapiToken' = Null
        /\ \A p \in Calls :
              (calls[p].pc = "idle" /\ calls'[p].op = "logout")
                  => calls'[p].pc = "done" /\ calls'[p].outcome = "resolved"

\* C4: when logout() returns, the access token and the user profile are
\* null and no credential is installed on the API client, whether the
\* revocation succeeded, threw or was skipped; logout() never rejects.
C4_LogoutClearsSession ==
    /\ [] (\A p \in Calls : calls[p].op = "logout" => calls[p].outcome = "resolved")
    /\ [][C4_LogoutStep]_vars

\* A logout whose revocation threw, made while a signed-in session existed.
C4_Witness ==
    \E p, q \in Calls :
        /\ calls[p].op = "logout" /\ calls[p].revoke = "threw" /\ calls[p].outcome = "resolved"
        /\ calls[q].op = "login" /\ calls[q].outcome = "resolved"
        /\ accessToken = Null /\ currentUserProfile = "null" /\ gapiToken = Null

\* C5 as stated: a login whose user-info request failed has resolved with the
\* empty profile, and a login is rejected only by an error in the token
\* response or by a throwing token request.
C5_RejectsOnlyOnTokenFailure ==
    \A p \in Calls :
        calls[p].op = "login" =>
            /\ calls[p].via = "userinfo_failed" =>
                   calls[p].outcome = "resolved" /\ calls[p].value = "empty"
            /\ calls[p].outcome = "rejected" =>
                   calls[p].via \in { "token_error", "request_threw" }

C5_Settled ==
    \A p \in Calls :
        calls[p].op = "login" =>
            /\ calls[p].via = "userinfo_failed" =>
                   calls[p].outcome = "resolved" /\ calls[p].value = "empty"
            /\ calls[p].outcome = "rejected" =>
                   calls[p].via \in BootstrapReasons \cup { "token_error", "request_threw" }

C5_UserinfoFailureStep ==
    \A p \in Calls :
        (uiResult[p] = "none" /\ uiResult'[p] = "failed")
            => /\ accessToken' = accessToken
               /\ gapiToken' = gapiToken
               /\ currentUserProfile' = "empty"
               /\ LET q == userinfo[p] IN
                  calls[q].outcome = "pending" =>
                      calls'[q].outcome = "resolved" /\ calls'[q].value = "empty"

\* C5 (amended): a failing user-info request after an error-free token
\* response stores the empty profile, leaves the acquired token in place and
\* resolves the pending login promise with the empty profile; a login is
\* rejected only when the bootstrap throws, the token response carries an
\* error, or the token request itself throws.
C5_ProfileFailureTolerated == [] C5_Settled /\ [][C5_UserinfoFailureStep]_vars

C5_Witness ==
    \E p \in Calls :
        /\ calls[p].op = "login" /\ calls[p].via = "userinfo_failed"
        /\ calls[p].outcome = "resolved" /\ calls[p].value = "empty"
        /\ uiResult[p] = "failed"
        /\ accessToken # Null /\ currentUserProfile = "empty"

\* C6: the credential installed on the API client always equals the
\* module's access token (both null after logout), in particular while a
\* user-info request is outstanding and after every login or logout.
C6_CredentialFollowsToken == gapiToken = accessToken

\* A user-info request is outstanding, issued with the new token installed,
\* after an earlier logout had cleared the credential.
C6_Witness ==
    /\ \E p \in Calls : userinfo[p] # Null
    /\ \E p \in Calls : calls[p].op = "logout"
    /\ accessToken # Null /\ gapiToken = accessToken

\* A request for which every one of the three inputs is usable.
CompleteInput(b) ==
    /\ b.present
    /\ b.code = "v" /\ b.codeVerifier = "v" /\ b.redirectUri = "v"

\* C7: a POST lacking code, codeVerifier or redirectUri (or with no body)
\* never causes a provider request and is answered 400 "invalid_request",
\* with or without server credentials.
C7_MissingInputIs400 ==
    (req.method = "POST" /\ ~CompleteInput(req.body)) =>
        /\ providerCalls = 0
        /\ hpc \in { "start", "done" }
        /\ hpc = "done" => res.status = 400 /\ res.body = OwnBody("invalid_request")

C7_Witness ==
    /\ hpc = "done" /\ req.method = "POST"
    /\ req.body.present /\ req.body.code = "v" /\ req.body.codeVerifier = "v"
    /\ req.body.redirectUri = Absent
    /\ req.env.clientId = Absent
    /\ res.status = 400

\* C8: a POST with all three inputs while GOOGLE_CLIENT_ID or
\* GOOGLE_CLIENT_SECRET is unset never causes a provider request and is
\* answered 500 "server_misconfigured".
C8_MisconfiguredIs500 ==
    ( /\ req.method = "POST" /\ CompleteInput(req.body)
      /\ (req.env.clientId = Absent \/ req.env.clientSecret = Absent) ) =>
        /\ providerCalls = 0
        /\ hpc \in { "start", "done" }
        /\ hpc = "done" => res.status = 500 /\ res.body = OwnBody("server_misconfigured")

C8_Witness ==
    /\ hpc = "done" /\ req.method = "POST" /\ CompleteInput(req.body)
    /\ req.env.clientId = "id" /\ req.env.clientSecret = Absent
    /\ res.status = 500

ValidRequest ==
    /\ req.method = "POST" /\ CompleteInput(req.body)
    /\ req.env.clientId = "id" /\ req.env.clientSecret = "secret"

C10_CorsOnlyForAllowlist ==
    hpc # "start" =>
        /\ (res.headers.acao # Absent) <=> (req.originHeader \in allowlist)
        /\ res.headers.acao # Absent => res.headers.acao = req.originHeader

C10_Witness ==
    /\ hpc = "done" /\ ValidRequest
    /\ req.originHeader = "https://evil.example"
    /\ res.status = 200
    /\ res.headers.acao = Absent


\* C11: only POST and OPTIONS are served: OPTIONS is answered 204 and any
\* method other than POST or OPTIONS is answered 405 "method_not_allowed";
\* in both cases the request body is never read and no request goes to the
\* provider.
C11_OnlyPostAndOptions ==
    req.method # "POST" =>
        /\ providerCalls = 0
        /\ ~res.bodyRead
        /\ hpc \in { "start", "done" }
        /\ hpc = "done" =>
              IF req.method = "OPTIONS"
              THEN res.status = 204 /\ res.body = NoBody
              ELSE res.status = 405 /\ res.body = OwnBody("method_not_allowed")

\* A GET with a complete body and configured credentials is refused.
C11_Witness ==
    /\ hpc = "done" /\ req.method = "GET"
    /\ CompleteInput(req.body)
    /\ req.env.clientId = "id" /\ req.env.clientSecret = "secret"
    /\ res.status = 405 /\ providerCalls = 0


\* C12: in one read, every record carries an identifier and no two records
\* of the result share one, also when explicit and made-up identifiers mix.
C12_IdentifiersUnique ==
    mpc = "done" =>
        /\ \A i \in 1 .. Len(mapped) : "id" \in DOMAIN mapped[i] /\ mapped[i]["id"] # ""
        /\ \A i, j \in 1 .. Len(mapped) : i # j => mapped[i]["id"] # mapped[j]["id"]


\* The cell of data row r under column i, an absent cell read as "".
GridCell(r, i) == IF i <= Len(grid.rows[r + 1]) THEN grid.rows[r + 1][i] ELSE ""

\* C13 as stated: row 0 is the header, the result has one record per later
\* row, in row order, and each record maps every non-empty header name to the
\* cell in the same column (a missing cell to ""); an empty or absent grid
\* gives an empty collection.
C13_RecordsMirrorRows ==
    mpc = "done" =>
        IF ~grid.present \/ grid.rows = <<>>
        THEN mapped = <<>>
        ELSE /\ Len(mapped) = Len(grid.rows) - 1
             /\ \A r \in 1 .. Len(mapped) :
                   \A i \in 1 .. Len(grid.rows[1]) :
                       grid.rows[1][i] # "" =>
                           /\ grid.rows[1][i] \in DOMAIN mapped[r]
                           /\ mapped[r][grid.rows[1][i]] = GridCell(r, i)

\* The last column whose header cell is k.
ColumnOf(k) ==
    CHOOSE i \in 1 .. Len(grid.rows[1]) :
        /\ grid.rows[1][i] = k
        /\ \A j \in (i + 1) .. Len(grid.rows[1]) : grid.rows[1][j] # k

\* C13 (amended): the same, except that a header name occurring in several
\* columns takes the cell of its last column, and that a record whose `id`
\* cell is missing or empty (or whose grid has no `id` column) carries the
\* identifier "<sheet>-<row position>" instead.
C13_RecordsMirrorRowsButId ==
    mpc = "done" =>
        IF ~grid.present \/ grid.rows = <<>>
        THEN mapped = <<>>
        ELSE LET names == { grid.rows[1][i] : i \in 1 .. Len(grid.rows[1]) } \ { "" } IN
             /\ Len(mapped) = Len(grid.rows) - 1
             /\ \A r \in 1 .. Len(mapped) :
                   /\ DOMAIN mapped[r] = names \cup { "id" }
                   /\ \A k \in names \ { "id" } : mapped[r][k] = GridCell(r, ColumnOf(k))
                   /\ mapped[r]["id"] =
                         IF "id" \in names /\ GridCell(r, ColumnOf("id")) # ""
                         THEN GridCell(r, ColumnOf("id"))
                         ELSE "projects-" \o ToString(r)

\* Two data rows under the header (id, name): the first complete, the second
\* with both cells missing.
C13_Witness ==
    /\ mpc = "done"
    /\ grid = [ present |-> TRUE, rows |-> << <<"id", "name">>, <<"projects-1", "projects-1">>, <<>> >> ]
    /\ Len(mapped) = 2
    /\ mapped[1]["id"] = "projects-1" /\ mapped[1]["name"] = "projects-1"
    /\ mapped[2]["id"] = "projects-2" /\ mapped[2]["name"] = ""


(***************************************************************************)
(* Writing a collection to the sheet and reading it back                   *)
(***************************************************************************)

\* The syncToSheet call has reached the given outcome.
SyncOutcome(o) ==
    \E q \in Calls : calls[q].op = "syncToSheet" /\ calls[q].outcome = o

\* Positions of the log entries of one kind.
LogAt(ev) == { i \in 1 .. Len(remoteLog) : remoteLog[i].ev = ev }

\* The text a field value is expected to be written as.
ExpectedText(v) ==
    CASE v = JsNull      -> ""
      [] v = JsUndefined -> ""
      [] v = JsString    -> "a"
      [] v = JsNumber    -> "7"
      [] v = JsList      -> "[1,2]"
      [] v = JsMap       -> "{\"k\":1}"

\* The keys carried by some record of the collection.
KeysWritten ==
    UNION { { syncArg.items[r][i].k : i \in 1 .. Len(syncArg.items[r]) } :
                r \in 1 .. Len(syncArg.items) }

\* Where a key is first met when the records are read in order.
FirstSeen(k) ==
    CHOOSE n \in 1 .. 100 :
        /\ \E r \in 1 .. Len(syncArg.items) : \E i \in 1 .. Len(syncArg.items[r]) :
               syncArg.items[r][i].k = k /\ n = 10 * r + i
        /\ \A r \in 1 .. Len(syncArg.items) : \A i \in 1 .. Len(syncArg.items[r]) :
               syncArg.items[r][i].k = k => n <= 10 * r + i

\* The text expected in the column k of the row of record r.
ExpectedCell(r, k) ==
    IF \E i \in 1 .. Len(syncArg.items[r]) : syncArg.items[r][i].k = k
    THEN ExpectedText(FieldOf(syncArg.items[r], k))
    ELSE ""

C15_EmptyWriteOnlyClears ==
    (~syncArg.isArray \/ Len(syncArg.items) = 0) =>
        /\ LogAt("update") = {}
        /\ syncRows = <<>>
        /\ Cardinality(LogAt("clear")) <= 1
        /\ \A q \in Calls :
              (calls[q].op = "syncToSheet" /\ calls[q].outcome = "resolved") =>
                  /\ calls[q].value = "success"
                  /\ LogAt("clear") # {} /\ LogAt("cleared") # {}
                  /\ sheet = <<>>

\* The call made with something that is not an array has returned.
C15_Witness ==
    /\ ~syncArg.isArray
    /\ SyncOutcome("resolved")
    /\ sheet = <<>>
    /\ Len(remoteLog) = 2

AllIdentified ==
    \A r \in 1 .. Len(syncArg.items) :
        \E i \in 1 .. Len(syncArg.items[r]) :
            syncArg.items[r][i].k = "id" /\ ExpectedText(syncArg.items[r][i].v) # ""

DataCalls == { q \in Calls : calls[q].op \in { "addToCalendar", "uploadToDrive" } }

DataLogAt(ev) == { i \in 1 .. Len(dataLog) : dataLog[i].ev = ev }

\* C17: a call of addToCalendar whose event lacks a title or a date appends
\* no script, calls no client init and sends no insert, whatever the state
\* of the bootstrap, and ends rejected by the validation.
C17_ValidationBeforeRemote ==
    (dataArg.op = "addToCalendar" /\ (~Truthy(dataArg.title) \/ ~Truthy(dataArg.date))) =>
        \A q \in DataCalls :
            /\ calls[q].loads = 0
            /\ calls[q].inits = 0
            /\ DataLogAt("insert") = {}
            /\ calls[q].outcome = "rejected" => calls[q].via = "validation"

\* C18: a call of uploadToDrive whose file cannot be read as binary appends
\* no script, calls no client init and sends no Drive request, whatever the
\* state of the bootstrap and of the configuration, and resolves to a result
\* whose url starts with the mock prefix.
C18_MockWithoutNetwork ==
    (dataArg.op = "uploadToDrive" /\ dataArg.file # "blob") =>
        \A q \in DataCalls :
            /\ calls[q].loads = 0
            /\ calls[q].inits = 0
            /\ dataLog = <<>>
            /\ calls[q].outcome # "rejected"
            /\ calls[q].outcome = "resolved" =>
                  \E n \in Clock : dataResult.url = MockPrefix \o ToString(n)

\* Minutes from midnight at which the event is expected to start.
ExpectedStartMinute ==
    CASE dataArg.time \in { Absent, "" } -> 600
      [] dataArg.time = "09:30"          -> 570
      [] dataArg.time = "23:30"          -> 1410

ExpectedDay == IF dataArg.date = "2025-06-02" THEN 1440 ELSE 0

\* C19: the event inserted for a titled and dated event starts at the given
\* date and time on the browser's wall clock, 10:00 when no time is given,
\* ends exactly one hour (3 600 000 ms) later, and both stamps name the
\* zone Asia/Taipei; the call only returns after that insert.
C19_OneHourFromLocalStart ==
    dataArg.op = "addToCalendar" =>
        /\ Cardinality(DataLogAt("insert")) <= 1
        /\ \A i \in DataLogAt("insert") :
              /\ Truthy(dataArg.title) /\ Truthy(dataArg.date)
              /\ dataLog[i].summary = dataArg.title
              /\ dataLog[i].start.dateTime =
                     (ExpectedDay + ExpectedStartMinute - denv.zone) * 60000
              /\ dataLog[i].end.dateTime - dataLog[i].start.dateTime = 3600000
              /\ dataLog[i].start.timeZone = "Asia/Taipei"
              /\ dataLog[i].end.timeZone = "Asia/Taipei"
        /\ \A q \in DataCalls :
              calls[q].outcome = "resolved" => DataLogAt("insert") # {}

\* The event of 2025-06-01 without a time, made in a browser in Taipei, has
\* been inserted: 10:00 there is 02:00 UTC.
C19_Witness ==
    /\ dataArg.op = "addToCalendar"
    /\ dataArg.date = "2025-06-01"
    /\ dataArg.time = Absent
    /\ denv.zone = 480
    /\ \E q \in DataCalls : calls[q].outcome = "resolved"
    /\ Len(dataLog) = 1
    /\ dataLog[1].start.dateTime = 2 * 3600000
    /\ dataLog[1].end.dateTime = 3 * 3600000

\* C20: with a readable file and a configured root, the first request is
\* the search for the folder name under the root; a folder that was found
\* is reused and none is created, otherwise exactly one is created before
\* the upload; the one upload is sent after the folder is known and names
\* that folder as its parent; the call only returns after the upload.
C20_FindOrCreateThenUpload ==
    (dataArg.op = "uploadToDrive" /\ dataArg.file = "blob" /\ denv.root) =>
        LET had == { f \in drive : ~f.made /\ f.name = SearchName(dataArg.folder) }
            new == { f \in drive : f.made }
        IN  /\ dataLog # <<>> =>
                  /\ dataLog[1].ev = "list"
                  /\ dataLog[1].name = SearchName(dataArg.folder)
                  /\ dataLog[1].parents = <<RootId>>
            /\ Cardinality(DataLogAt("list")) <= 1
            /\ Cardinality(DataLogAt("create")) <= 1
            /\ Cardinality(DataLogAt("upload")) <= 1
            /\ had # {} => DataLogAt("create") = {} /\ new = {}
            /\ \A u \in DataLogAt("upload") :
                  /\ had = {} => \E c \in DataLogAt("create") : c < u
                  /\ \E f \in had \cup new : dataLog[u].parents = <<f.id>>
                  /\ Cardinality(new) = Cardinality(DataLogAt("create"))
            /\ \A q \in DataCalls :
                  calls[q].outcome = "resolved" => DataLogAt("upload") # {}

\* The folder did not exist: it has been created and the file uploaded
\* into it.
C20_Witness ==
    /\ dataArg.op = "uploadToDrive"
    /\ dataArg.folder = "proj"
    /\ \E q \in DataCalls : calls[q].outcome = "resolved" /\ calls[q].via = "upload"
    /\ drive = { [ name |-> "other", id |-> 1, made |-> FALSE ],
                 [ name |-> "proj", id |-> 2, made |-> TRUE ] }
    /\ Len(dataLog) = 3
    /\ dataLog[2].ev = "create"
    /\ dataLog[3].parents = <<2>>


(***************************************************************************)
(* Missing configuration                                                   *)
(***************************************************************************)

\* C21: when the client id or the API key is absent, no script is ever
\* appended, the client is never initialised and no request is sent; every
\* operation that was called has ended at once, login and the data
\* operations rejected with the configuration error, initClient resolved to
\* false.
C21_MissingConfigFailsFast ==
    (~cfg.clientId \/ ~cfg.apiKey) =>
        /\ scriptLoads = 0 /\ gisScriptLoads = 0 /\ initCalls = 0
        /\ ~windowGapi /\ ~gapiInited
        /\ dataLog = <<>> /\ remoteLog = <<>>
        /\ \A p \in Calls :
              calls[p].op # "none" =>
                  /\ calls[p].loads = 0 /\ calls[p].inits = 0
                  /\ IF calls[p].op = "initClient"
                     THEN calls[p].outcome = "resolved" /\ calls[p].value = "false"
                     ELSE calls[p].outcome = "rejected" /\ calls[p].value = "config"

\* With the API key missing, a login and a data operation have both been
\* refused.
C21_Witness ==
    /\ cfg = [ clientId |-> TRUE, apiKey |-> FALSE ]
    /\ calls[1].op = "login" /\ calls[1].outcome = "rejected" /\ calls[1].value = "config"
    /\ calls[2].op \in { "addToCalendar", "uploadToDrive" }
    /\ calls[2].outcome = "rejected" /\ calls[2].value = "config"
    /\ scriptLoads = 0


(***************************************************************************)
(* Session and sign-in under interleaving                                  *)
(***************************************************************************)

\* C24: in every reachable state a user profile is held only while an
\* access token is held.
C24_ProfileOnlyWithToken ==
    currentUserProfile # "null" => accessToken # Null

\* C27: every login() call that was made is eventually resolved or rejected,
\* given that every token request is answered.
C27_EveryLoginSettles ==
    \A p \in Calls :
        (calls[p].op = "login") ~> (calls[p].outcome \in { "resolved", "rejected" })


(***************************************************************************)
(* Writers of one sheet                                                    *)
(***************************************************************************)

\* What a call leaves in an empty range when nothing else writes.
WrittenBy(p) ==
    IF Len(writes[p].arg.items) = 0 THEN <<>> ELSE BuildRows(writes[p].arg.items)

\* C25: once two interleaved syncToSheet calls with non-empty collections
\* have both returned, the sheet holds exactly the header and rows of one
\* of them.
C25_NoMixtureOfWriters ==
    (/\ \A p \in Calls : calls[p].op = "syncToSheet" /\ calls[p].outcome = "resolved"
     /\ \A p \in Calls : Len(writes[p].arg.items) > 0)
        => \E p \in Calls : sheet = WrittenBy(p)

\* C26: when a syncToSheet call on a non-empty collection has been rejected,
\* the sheet holds what it held before the call.
C26_FailedWriteKeepsSheet ==
    (syncArg.isArray /\ Len(syncArg.items) > 0 /\ SyncOutcome("rejected"))
        => sheet = OldSheet


(***************************************************************************)
(* The shell                                                               *)
(***************************************************************************)

\* The handlers of App.jsx whose remote calls the shell catches.
Catching == { "load", "reload", "addProject", "change", "addEvent" }

\* C22: when a remote call of a handler's run has been rejected, that run
\* raised an error notification and did not replace the data state.
C22_RejectedCallLeavesData ==
    \A h \in Catching : run[h].failed => (run[h].toast = "error" /\ ~run[h].wrote)

\* A text that is empty or made of spaces only.
Blank(t) == \A i \in 1 .. Len(t) : t[i] = " "

\* One of the two submit buttons is pressed.
Submit == clicks' = clicks + 1 /\ uiSignedIn /\ uiSignedIn'

\* The run of a handler that rejected its form: a notification, no request.
Refused == [ NoRun EXCEPT !.toast = "error" ]

EventHandlers == { "addEvent", "pageAddEvent" }

\* C23: pressing submit on a project form whose name is empty or blank, or
\* on an event form whose title or date is empty, makes the handler raise an
\* error notification in that step without any remote call, and leaves the
\* form, the modal, the data state and the remote state as they were.
C23_InvalidSubmitRefused ==
    [][ Submit =>
          /\ (projectModal /\ Blank(newProject)) =>
                /\ run'["addProject"] \in { run["addProject"], Refused }
                /\ run'["change"] = run["change"]
          /\ (eventModal /\ (newEvent.title = <<>> \/ newEvent.date = "")) =>
                \A h \in EventHandlers : run'[h] \in { run[h], Refused }
          /\ ((projectModal /\ Blank(newProject))
                 \/ (eventModal /\ (newEvent.title = <<>> \/ newEvent.date = ""))) =>
                UNCHANGED <<data, newProject, projectModal, newEvent, eventModal, cloud>>
      ]_vars

\* A blank project name and an event without a date were both refused.
C23_Witness ==
    /\ projectModal /\ newProject = <<" ">>
    /\ run["addProject"] = Refused
    /\ eventModal /\ newEvent.title # <<>> /\ newEvent.date = ""
    /\ \E h \in EventHandlers : run[h] = Refused

\* C28: while the user is signed out after a logout, and no load is in
\* flight, the data state is the empty initial data.  (Runs in which a
\* project was created are left aside: only logout and loadAllData write.)
C28_SignedOutDataEmpty ==
    (/\ ~uiSignedIn
     /\ run["logout"].sent # <<>>
     /\ run["load"].pc = "idle" /\ run["reload"].pc = "idle"
     /\ run["addProject"].sent = <<>> /\ run["change"].sent = <<>>)
        => data = INITIAL_DATA

RECURSIVE Members(_)
Members(q) == IF q = <<>> THEN {} ELSE { Head(q) } \cup Members(Tail(q))

\* C29: handleAddProject sends createDriveFolder first and syncToSheet only
\* once a folder was made, so not after a failed folder creation; the
\* collection it writes is the projects it held followed by the new project;
\* and a step of handleAddProject that replaces the local projects is the
\* step in which its sheet write succeeded, the sheet then holding the same
\* collection.
C29_CreationOrder ==
    /\ [](LET r == run["addProject"]
          IN  /\ r.sent \in { <<>>, <<"createDriveFolder">>,
                              <<"createDriveFolder", "syncToSheet">> }
              /\ Len(r.sent) = 2 =>
                    /\ cloud.folders > 0
                    /\ Len(r.updated) = Len(r.base) + 1
                    /\ SubSeq(r.updated, 1, Len(r.base)) = r.base
                    /\ r.updated[Len(r.updated)] \notin Members(r.base)
              /\ (r.failed /\ r.pc = "idle" /\ Len(r.sent) = 1) => r.updated = <<>>)
    /\ [][ (run'["addProject"] # run["addProject"] /\ data'.projects # data.projects) =>
              /\ run["addProject"].pc = "sync"
              /\ run'["addProject"].toast = "success"
              /\ data'.projects = run["addProject"].updated
              /\ cloud'.sheet = run["addProject"].updated
         ]_vars

\* A project was created after the ones loaded from the sheet.
C29_Witness ==
    /\ run["addProject"].toast = "success"
    /\ Len(run["addProject"].base) > 0
    /\ data.projects = run["addProject"].updated
    /\ cloud.sheet = data.projects

RECURSIVE Count(_, _)
Count(q, x) ==
    IF q = <<>> THEN 0 ELSE (IF Head(q) = x THEN 1 ELSE 0) + Count(Tail(q), x)

\* C30: a successful project creation, handleAddProject together with the
\* onProjectsChange callback it calls, has sent exactly one syncToSheet.
C30_OneSheetWrite ==
    run["addProject"].toast = "success" =>
        Count(run["addProject"].sent, "syncToSheet")
            + Count(run["change"].sent, "syncToSheet") = 1

====
